---- MODULE Spec2Model ----
(***************************************************************************)
(* FormFit Custom order server: the record store (db.js), the conversation *)
(* state machine (conversation.js), the Messenger webhook (webhook.js),    *)
(* the pricing engine (pricing.js), the pipeline orchestrator              *)
(* (pipeline.js) with Model Generation (tooltrace.js) and the vendor       *)
(* service (craftcloud.js), and the operator routes (index.js).            *)
(*                                                                         *)
(* Representation.  A JavaScript string that the code inspects character   *)
(* by character (message text, material, size, color, fulfillment type) is *)
(* a sequence of one-character strings, '' being << >>.  Every other text  *)
(* (a reply, an order ID, a file path) is a sequence of string pieces whose *)
(* concatenation is the text, so that template literals and number         *)
(* formatting are computed rather than assumed.  Enumerations that the     *)
(* code only compares for equality (stage, status, direction) are TLA+     *)
(* strings.  Money is an integer number of cents; every price the pricing  *)
(* tables can produce is a whole number of cents, so the floating point    *)
(* arithmetic of pricing.js is exact on them.  The updated_at and         *)
(* timestamp columns are not modelled, created_at counts whole seconds,    *)
(* and the literals are written without their emoji and dashes.            *)
(***************************************************************************)
EXTENDS Integers, Sequences, FiniteSets, TLC

\* ------------------------------------------------------------------ bounds

\* Number of distinct values generateOrderId can return (90000 in the code).
NumIds == 2

\* Inbound events stop once the Message log holds this many rows.
MaxMessages == 5

\* The same, when a single customer writes: room for one order cycle.
MaxMessagesOne == 7

\* The same, when a single customer writes: room for a returning customer.
MaxMessagesLong == 9

\* The same, when the pipeline runs beside the conversation: room for the
\* turns up to the confirmation.
MaxMessagesPipe == 7

\* ------------------------------------------------------- character strings

LowerLetters == <<"a", "b", "c", "d", "e", "f", "g", "h", "i", "j", "k", "l", "m", "n", "o", "p", "q", "r", "s", "t", "u", "v", "w", "x", "y", "z">>

UpperLetters == <<"A", "B", "C", "D", "E", "F", "G", "H", "I", "J", "K", "L", "M", "N", "O", "P", "Q", "R", "S", "T", "U", "V", "W", "X", "Y", "Z">>

\* String.prototype.toUpperCase on the ASCII alphabet used by the inputs.
toUpperCase(s) ==
  [i \in 1..Len(s) |->
     IF \E k \in 1..26 : LowerLetters[k] = s[i]
       THEN UpperLetters[CHOOSE k \in 1..26 : LowerLetters[k] = s[i]]
       ELSE s[i]]

\* String.prototype.toLowerCase on the ASCII alphabet used by the inputs.
toLowerCase(s) ==
  [i \in 1..Len(s) |->
     IF \E k \in 1..26 : UpperLetters[k] = s[i]
       THEN LowerLetters[CHOOSE k \in 1..26 : UpperLetters[k] = s[i]]
       ELSE s[i]]

\* String.prototype.includes: sub occurs in s as a contiguous substring.
includes(s, sub) ==
  \E i \in 0..(Len(s) - Len(sub)) : SubSeq(s, i + 1, i + Len(sub)) = sub

\* Characters matched by \s in the inputs.
WhiteSpace == {" "}

RECURSIVE trimStart(_)
trimStart(s) ==
  IF s # << >> /\ Head(s) \in WhiteSpace THEN trimStart(Tail(s)) ELSE s

RECURSIVE trimEnd(_)
trimEnd(s) ==
  IF s # << >> /\ s[Len(s)] \in WhiteSpace
    THEN trimEnd(SubSeq(s, 1, Len(s) - 1)) ELSE s

\* String.prototype.trim
trim(s) == trimEnd(trimStart(s))

\* The separator class of text.split(/[\s,./]+/) in parseDetails.
Separators == WhiteSpace \cup {",", ".", "/"}

\* text.split(/[\s,./]+/): the fields between maximal separator runs; a
\* leading or trailing run yields an empty first or last field, and the
\* empty string yields one empty field.  acc holds the finished fields and
\* cur the field being read; i is the next position.
RECURSIVE splitFrom(_, _, _, _)
splitFrom(s, i, acc, cur) ==
  IF i > Len(s) THEN Append(acc, cur)
  ELSE IF s[i] \in Separators
    THEN IF i > 1 /\ s[i - 1] \in Separators
           THEN splitFrom(s, i + 1, acc, cur)
           ELSE splitFrom(s, i + 1, Append(acc, cur), << >>)
    ELSE splitFrom(s, i + 1, acc, Append(cur, s[i]))

split(s) == splitFrom(s, 1, << >>, << >>)

\* Array.prototype.join(' ')
RECURSIVE join(_)
join(ws) ==
  IF ws = << >> THEN << >>
  ELSE IF Len(ws) = 1 THEN ws[1]
  ELSE ws[1] \o <<" ">> \o join(Tail(ws))

PLA == <<"P", "L", "A">>
PLAplus == <<"P", "L", "A", "+">>
PETG == <<"P", "E", "T", "G">>
small == <<"s", "m", "a", "l", "l">>
medium == <<"m", "e", "d", "i", "u", "m">>
fullDrawer == <<"f", "u", "l", "l", " ", "d", "r", "a", "w", "e", "r">>
black == <<"b", "l", "a", "c", "k">>
SELF == <<"S", "E", "L", "F">>
CLOUD == <<"C", "L", "O", "U", "D">>

knownWords == {
    <<"p", "l", "a">>,
    <<"p", "l", "a", "+">>,
    <<"p", "e", "t", "g">>,
    <<"s", "m", "a", "l", "l">>,
    <<"m", "e", "d", "i", "u", "m">>,
    <<"l", "a", "r", "g", "e">>,
    <<"f", "u", "l", "l">>,
    <<"d", "r", "a", "w", "e", "r">>,
    <<"t", "o", "o", "l", "s">>,
    <<"t", "o", "o", "l">>,
    <<"a", "n", "d">>,
    <<"t", "h", "e">>,
    <<"i">>,
    <<"w", "a", "n", "t">>,
    <<"w", "o", "u", "l", "d">>,
    <<"l", "i", "k", "e">>,
    <<"p", "l", "e", "a", "s", "e">>,
    <<"1">>,
    <<"2">>,
    <<"3">>,
    <<"m", "a", "t", "e", "r", "i", "a", "l">>,
    <<"c", "o", "l", "o", "r">>,
    <<"s", "i", "z", "e">>,
    <<"i", "n">>,
    <<"a">> }

IsColorWord(w) == Len(w) > 1 /\ toLowerCase(w) \notin knownWords

\* parseDetails looking for pla before petg.
parseDetails_plaFirst(text) ==
  LET lower == toLowerCase(text)
      material ==
        IF includes(lower, <<"p", "l", "a", "+">>) THEN PLAplus
        ELSE IF includes(lower, <<"p", "l", "a">>) THEN PLA
        ELSE IF includes(lower, <<"p", "e", "t", "g">>) THEN PETG
        ELSE PLA
      size ==
        IF includes(lower, <<"f", "u", "l", "l">>)
             \/ includes(lower, <<"d", "r", "a", "w", "e", "r">>) THEN fullDrawer
        ELSE IF includes(lower, <<"s", "m", "a", "l", "l">>) THEN small
        ELSE IF includes(lower, <<"m", "e", "d", "i", "u", "m">>) THEN medium
        ELSE IF includes(lower, <<"l", "a", "r", "g", "e">>) THEN fullDrawer
        ELSE medium
      colorWords == SelectSeq(split(text), IsColorWord)
      color == IF Len(colorWords) > 0 THEN join(colorWords) ELSE black
  IN [material |-> material, color |-> color, size |-> size]

\* Best-effort parse of the free-text details reply.
parseDetails(text) ==
  LET lower == toLowerCase(text)
      material ==
        IF includes(lower, <<"p", "e", "t", "g">>) THEN PETG
        ELSE IF includes(lower, <<"p", "l", "a", "+">>) THEN PLAplus
        ELSE IF includes(lower, <<"p", "l", "a">>) THEN PLA
        ELSE PLA
      size ==
        IF includes(lower, <<"f", "u", "l", "l">>)
             \/ includes(lower, <<"d", "r", "a", "w", "e", "r">>) THEN fullDrawer
        ELSE IF includes(lower, <<"s", "m", "a", "l", "l">>) THEN small
        ELSE IF includes(lower, <<"m", "e", "d", "i", "u", "m">>) THEN medium
        ELSE IF includes(lower, <<"l", "a", "r", "g", "e">>) THEN fullDrawer
        ELSE medium
      colorWords == SelectSeq(split(text), IsColorWord)
      color == IF Len(colorWords) > 0 THEN join(colorWords) ELSE black
  IN [material |-> material, color |-> color, size |-> size]

\* --------------------------------------------------------- number formatting

Digit == <<"0", "1", "2", "3", "4", "5", "6", "7", "8", "9">>

\* Number-to-string conversion of a non-negative integer, as a template
\* literal does it.
RECURSIVE digits(_)
digits(n) ==
  IF n < 10 THEN <<Digit[n + 1]>>
  ELSE Append(digits(n \div 10), Digit[(n % 10) + 1])

\* Number.prototype.toFixed(2) of a non-negative amount held in cents.
toFixed2(cents) ==
  digits(cents \div 100) \o <<".", Digit[((cents % 100) \div 10) + 1], Digit[(cents % 10) + 1]>>

\* ------------------------------------------------------------------ pricing

SELF_BASE == (small :> 3500) @@ (medium :> 7500) @@ (fullDrawer :> 15000)

\* Material multipliers in tenths (1.0, 1.1, 1.2).
MATERIAL_MULT ==
  (<<"p", "l", "a">> :> 10) @@ (<<"p", "l", "a", "+">> :> 11) @@ (<<"p", "e", "t", "g">> :> 12)

SELF_SHIPPING == (small :> 800) @@ (medium :> 800) @@ (fullDrawer :> 1500)

RUSH_FEE == 2500

CAD_FEE == 1500

CLOUD_COST == (small :> 2000) @@ (medium :> 4500) @@ (fullDrawer :> 10000)

CLOUD_SELL == (small :> 5500) @@ (medium :> 11000) @@ (fullDrawer :> 22500)

\* table[key] || fallback, for a table without falsy entries.
lookupOr(table, key, fallback) ==
  IF key \in DOMAIN table THEN table[key] ELSE fallback

\* Math.round(x / 10) for a non-negative integer x.
roundDiv10(x) == (x + 5) \div 10

calculateQuote(size, material, fulfillment, rush, cadDesign) ==
  LET sizeKey == toLowerCase(size)
      matKey == toLowerCase(material)
      mode == toUpperCase(IF fulfillment = << >> THEN SELF ELSE fulfillment)
      addons == (IF rush THEN RUSH_FEE ELSE 0) + (IF cadDesign THEN CAD_FEE ELSE 0)
  IN IF mode = CLOUD
       THEN LET cost == lookupOr(CLOUD_COST, sizeKey, CLOUD_COST[medium])
                sell == lookupOr(CLOUD_SELL, sizeKey, CLOUD_SELL[medium])
                total == sell + addons
            IN [basePrice |-> sell, addonsPrice |-> addons, shipping |-> 0,
                total |-> total, craftcloudCost |-> cost, margin |-> total - cost]
       ELSE LET base == lookupOr(SELF_BASE, sizeKey, SELF_BASE[medium])
                mult == lookupOr(MATERIAL_MULT, matKey, 10)
                basePrice == roundDiv10(base * mult)
                shipping == lookupOr(SELF_SHIPPING, sizeKey, SELF_SHIPPING[medium])
                total == basePrice + addons + shipping
                materialCost == roundDiv10(base * 3)
            IN [basePrice |-> basePrice, addonsPrice |-> addons, shipping |-> shipping,
                total |-> total, craftcloudCost |-> 0,
                margin |-> (total - materialCost) - shipping]

\* The add-on names of the proposal, parts.join(', ').
addonParts(order) ==
  IF order.rush # 0
    THEN (IF order.cad_design # 0 THEN <<"Rush", ", ", "CAD design">> ELSE <<"Rush">>)
    ELSE (IF order.cad_design # 0 THEN <<"CAD design">> ELSE << >>)

\* The label of the proposal's total line, spelled out by character.
TotalLabel == <<"T", "o", "t", "a", "l", ":">>

\* The proposal text: the lines of formatProposal joined by "\n".  order is
\* the Order row as handleDetailsReceived read it.
formatProposal(order, quote) ==
  <<"*FormFit Custom Quote*", "\n", "\n">>
  \o <<"Size: ">> \o order.size \o <<"\n">>
  \o <<"Material: ">> \o order.material \o <<"\n">>
  \o <<"Color: ">> \o order.color \o <<"\n">>
  \o <<"Fulfillment: ">> \o order.fulfillment_type \o <<"\n">>
  \o <<"\n">>
  \o <<"Base price: $">> \o toFixed2(quote.basePrice)
  \o (IF quote.addonsPrice > 0
        THEN <<"\n", "Add-ons (">> \o addonParts(order) \o <<"): $">> \o toFixed2(quote.addonsPrice)
        ELSE << >>)
  \o (IF order.fulfillment_type = CLOUD
        THEN <<"\n", "Shipping: included", "\n",
               "(Ships directly to you from our fulfillment partner)">>
        ELSE <<"\n", "Shipping: $">> \o toFixed2(quote.shipping))
  \o <<"\n", "\n">> \o TotalLabel \o <<" $">> \o toFixed2(quote.total)
  \o <<"\n", "\n", "Reply YES to confirm or NO to cancel.">>

\* ------------------------------------------------------------- record store

Customers == {"c1", "c2"}

Stages == {"NEW", "PHOTO_RECEIVED", "DETAILS_RECEIVED", "QUOTE_SENT", "CONFIRMED"}

\* The orders, conversation_state and messages tables.  orders and messages
\* are sequences in insertion (rowid) order; conversation_state is keyed by
\* psid and has a row only for the customers that have one.
VARIABLES orders, conversation_state, messages

\* The locals of the most recent handleIncoming invocation: its arguments,
\* the state row it read, the calls it made on the transport, and whether
\* it returned or threw.
VARIABLE turn

\* The most recent runOrderPipeline invocation (see NoRun).
VARIABLE run

\* The input a specification of one function draws at its start (see NoDraw).
VARIABLE drawn

\* Where the uploadAndQuote call of the run is among its requests to the
\* vendor (see NoQuoting).
VARIABLE quoting

\* The processPhoto invocations that wait at an await, where deliveries
\* overlap (see photoArrived).
VARIABLE waiting

\* A second runOrderPipeline invocation, which can overlap the first.
VARIABLE run2

\* Who took the latest step, and the Orders the state machine has set to
\* confirmed or cancelled, where the ownership of the tables is followed
\* (see NoOwn).
VARIABLE own

\* What the webhook and the operator routes have no access to.
aside == <<drawn, quoting, waiting, run2, own>>

vars == <<orders, conversation_state, messages, turn, run, aside>>

\* The three tables as one value, for the operators that thread them.
Db == [orders |-> orders, conversation_state |-> conversation_state, messages |-> messages]

\* `FFC-${num}`
orderIdOf(num) == <<"FFC-">> \o digits(num)

\* The values generateOrderId can return: num is drawn from 10000..99999 in
\* the code, from the first NumIds of them here.
OrderIds == {orderIdOf(10000 + k) : k \in 0..(NumIds - 1)}

\* The row that INSERT INTO orders (order_id, psid, photo_path, status)
\* creates, the other columns taking the defaults of the schema; created_at
\* is datetime('now'), in whole seconds.
newOrderRow(orderId, psid, photoPath, now) ==
  [order_id |-> orderId, psid |-> psid, name |-> << >>, status |-> "new",
   photo_path |-> photoPath, material |-> << >>, color |-> << >>, size |-> << >>,
   fulfillment_type |-> << >>, rush |-> 0, cad_design |-> 0,
   base_price |-> 0, addons_price |-> 0, shipping |-> 0, total |-> 0,
   craftcloud_cost |-> 0, margin |-> 0, stl_path |-> << >>,
   craftcloud_quote_id |-> << >>, created_at |-> now]

\* order_id is UNIQUE: the INSERT of createOrder fails when the generated ID
\* is already taken.
createOrderFails(db, orderId) ==
  \E i \in 1..Len(db.orders) : db.orders[i].order_id = orderId

\* The second in which an INSERT runs when tick seconds have begun since the
\* last one: the clock of the first INSERT is taken as 0.
clock(db, tick) ==
  IF db.orders = << >> THEN 0 ELSE db.orders[Len(db.orders)].created_at + tick

\* createOrder with generateOrderId returning orderId, when the INSERT
\* succeeds.
createOrder(db, orderId, psid, photoPath, tick) ==
  [db EXCEPT !.orders = Append(@, newOrderRow(orderId, psid, photoPath, clock(db, tick)))]

\* getOrderByPsid: the rows the query may return (none when the customer has
\* no Order that is not cancelled).  ORDER BY created_at DESC LIMIT 1 leaves
\* the choice open between rows created in the same second.
getOrderByPsid(db, psid) ==
  LET live == {i \in 1..Len(db.orders) :
                 db.orders[i].psid = psid /\ db.orders[i].status # "cancelled"}
  IN {db.orders[i] : i \in {j \in live : \A k \in live :
                                 db.orders[k].created_at <= db.orders[j].created_at}}

\* getOrder: the rows with that order_id (none when the order is absent).
getOrder(db, orderId) ==
  SelectSeq(db.orders, LAMBDA r : r.order_id = orderId)

allowed == {"name", "status", "photo_path", "material", "color", "size",
            "fulfillment_type", "rush", "cad_design", "base_price", "addons_price",
            "shipping", "total", "craftcloud_cost", "margin", "stl_path",
            "craftcloud_quote_id"}

\* updateOrder: fields is a record; the allowed keys are written on the row
\* with that order_id, and nothing happens when there is no such row.
updateOrder(db, orderId, fields) ==
  LET keys == DOMAIN fields \cap allowed
  IN IF keys = {} THEN db
     ELSE [db EXCEPT !.orders =
             [i \in 1..Len(@) |->
                IF @[i].order_id = orderId
                  THEN [k \in DOMAIN @[i] |-> IF k \in keys THEN fields[k] ELSE @[i][k]]
                  ELSE @[i]]]

saveMessage(db, psid, direction, text) ==
  [db EXCEPT !.messages = Append(@, [psid |-> psid, direction |-> direction, text |-> text])]

\* getState: the customer's row, inserted with stage NEW when absent.
getStateDb(db, psid) ==
  IF psid \in DOMAIN db.conversation_state THEN db
  ELSE [db EXCEPT !.conversation_state =
          [p \in DOMAIN @ \cup {psid} |->
             IF p = psid THEN [stage |-> "NEW", pending_order_id |-> << >>] ELSE @[p]]]

getState(db, psid) == getStateDb(db, psid).conversation_state[psid]

\* setState: upsert of the customer's row.
setState(db, psid, stage, pendingOrderId) ==
  [db EXCEPT !.conversation_state =
     [p \in DOMAIN @ \cup {psid} |->
        IF p = psid THEN [stage |-> stage, pending_order_id |-> pendingOrderId] ELSE @[p]]]

\* ---------------------------------------------------------------- transport

\* messenger.downloadAttachment: `uploads/${psid}_${Date.now()}.jpg` when the
\* download succeeds (the timestamp is left out), '' when it fails.
downloadAttachment(url, psid, ok) ==
  IF ok THEN <<"uploads/", psid, "_", ".jpg">> ELSE << >>

\* A call on the transport, as recorded on the turn that made it.  sendText
\* and downloadAttachment swallow their failures: ok is only logged.
Call(fn, psid, arg, ok) == [fn |-> fn, psid |-> psid, arg |-> arg, ok |-> ok]

\* ------------------------------------------------------------------ replies

WelcomeReply == <<"Hey! Welcome to FormFit Custom. I'm Mango, your order assistant. Send me a photo of your tools laid out flat on a piece of paper and we'll get you a custom quote!">>

PhotoReply == <<"Got your photo! A couple quick questions:\n1 What material do you want? (PLA / PETG / PLA+)\n2 What color?\n3 Rough size - Small (1-2 tools), Medium (5-10 tools), or Full Drawer?">>

ResendReply == <<"Please reply with your material, color, and size preferences.">>

FulfillmentReply == <<"Perfect. Do you want us to print it, or would you like a cloud-printed option shipped directly to you?\n(Reply: SELF or CLOUD)">>

ConfirmedReply(orderId) == <<"You're confirmed! We'll be in touch when your order ships. Order ID: ">> \o orderId

CancelledReply == <<"No worries - order cancelled. Send a new photo anytime to start a fresh quote!">>

YesNoReply == <<"Reply YES to confirm your order or NO to cancel.">>

WelcomeBackReply == <<"Welcome back! Send a new photo to start another order.">>

\* ------------------------------------------------- conversation state machine

\* A handler works on h = [db, calls, threw]: the tables, the transport calls
\* made so far in this turn, and whether an exception is propagating.  env
\* holds what the turn does not control: the ID generateOrderId returns
\* (orderId), whether the download (dl_ok) and the send (send_ok) succeed, and
\* how many seconds have begun since the last Order was created (tick).

\* await sendText(psid, text)
send(h, psid, text, env) ==
  [h EXCEPT !.calls = Append(@, Call("sendText", psid, text, env.send_ok))]

\* db.saveMessage(psid, 'out', reply)
saveOut(h, psid, reply) ==
  [h EXCEPT !.db = saveMessage(@, psid, "out", reply)]

processPhoto(h, psid, attachments, env) ==
  LET images == SelectSeq(attachments, LAMBDA a : a.type = "image")
      fetch == images # << >> /\ images[1].url # << >>
      photoPath == IF fetch THEN downloadAttachment(images[1].url, psid, env.dl_ok) ELSE << >>
      h1 == IF fetch
              THEN [h EXCEPT !.calls = Append(@, Call("downloadAttachment", psid, images[1].url, env.dl_ok))]
              ELSE h
  IN IF createOrderFails(h1.db, env.orderId)
       THEN [h1 EXCEPT !.threw = TRUE]
       ELSE LET h2 == [h1 EXCEPT !.db = setState(createOrder(@, env.orderId, psid, photoPath, env.tick),
                                                 psid, "PHOTO_RECEIVED", env.orderId)]
            IN saveOut(send(h2, psid, PhotoReply, env), psid, PhotoReply)

handleNew(h, psid, text, hasImage, attachments, env) ==
  IF hasImage THEN processPhoto(h, psid, attachments, env)
  ELSE saveOut(send(h, psid, WelcomeReply, env), psid, WelcomeReply)

\* handlePhotoReceived without the empty-text guard.
handlePhotoReceived_noGuard(h, psid, text, env) ==
  LET orderId == getState(h.db, psid).pending_order_id
      parsed == parseDetails(text)
      h1 == [h EXCEPT !.db = setState(
                updateOrder(@, orderId, [material |-> parsed.material,
                                         color |-> parsed.color,
                                         size |-> parsed.size]),
                psid, "DETAILS_RECEIVED", orderId)]
  IN saveOut(send(h1, psid, FulfillmentReply, env), psid, FulfillmentReply)

\* handlePhotoReceived storing the details on the customer's oldest Order.
handlePhotoReceived_oldestOrder(h, psid, text, env) ==
  IF text = << >> THEN send(h, psid, ResendReply, env)
  ELSE LET orderId == getState(h.db, psid).pending_order_id
           oldest == SelectSeq(h.db.orders, LAMBDA o : o.psid = psid)[1].order_id
           parsed == parseDetails(text)
           h1 == [h EXCEPT !.db = setState(
                     updateOrder(@, oldest, [material |-> parsed.material,
                                             color |-> parsed.color,
                                             size |-> parsed.size]),
                     psid, "DETAILS_RECEIVED", orderId)]
       IN saveOut(send(h1, psid, FulfillmentReply, env), psid, FulfillmentReply)

handlePhotoReceived(h, psid, text, env) ==
  IF text = << >> THEN send(h, psid, ResendReply, env)
  ELSE LET orderId == getState(h.db, psid).pending_order_id
           parsed == parseDetails(text)
           h1 == [h EXCEPT !.db = setState(
                     updateOrder(@, orderId, [material |-> parsed.material,
                                              color |-> parsed.color,
                                              size |-> parsed.size]),
                     psid, "DETAILS_RECEIVED", orderId)]
       IN saveOut(send(h1, psid, FulfillmentReply, env), psid, FulfillmentReply)

\* chooseFulfillment searching the upper-cased text for a lower-case word.
chooseFulfillment_lowerWord(upper) ==
  IF includes(upper, <<"c", "l", "o", "u", "d">>) THEN CLOUD ELSE SELF

\* The fulfillment mode handleDetailsReceived reads from the upper-cased text.
chooseFulfillment(upper) == IF includes(upper, CLOUD) THEN CLOUD ELSE SELF

handleDetailsReceived(h, psid, text, env) ==
  LET upper == toUpperCase(text)
      orderId == getState(h.db, psid).pending_order_id
      fulfillment == chooseFulfillment(upper)
      db1 == updateOrder(h.db, orderId, [fulfillment_type |-> fulfillment])
      found == getOrder(db1, orderId)
  IN IF found = << >>
       THEN \* order is undefined: reading order.size throws
            [h EXCEPT !.db = db1, !.threw = TRUE]
       ELSE LET order == found[1]
                quote == calculateQuote(order.size, order.material, fulfillment,
                                        order.rush # 0, order.cad_design # 0)
                db2 == updateOrder(db1, orderId,
                         [base_price |-> quote.basePrice,
                          addons_price |-> quote.addonsPrice,
                          shipping |-> quote.shipping,
                          total |-> quote.total,
                          craftcloud_cost |-> quote.craftcloudCost,
                          margin |-> quote.margin])
                proposal == formatProposal(order, quote)
                h1 == [h EXCEPT !.db = setState(db2, psid, "QUOTE_SENT", orderId)]
            IN saveOut(send(h1, psid, proposal, env), psid, proposal)

\* isYes comparing the whole text with YES instead of searching it.
isYes_exact(upper) == upper = <<"Y", "E", "S">>

isYes(upper) ==
  includes(upper, <<"Y", "E", "S">>)
    \/ includes(upper, <<"C", "O", "N", "F", "I", "R", "M">>)
    \/ includes(upper, <<"A", "P", "P", "R", "O", "V", "E">>)

\* isNo without the NO alternative.
isNo_cancelOnly(upper) == includes(upper, <<"C", "A", "N", "C", "E", "L">>)

\* isNo searching for the letter N instead of the word NO.
isNo_letter(upper) ==
  includes(upper, <<"N">>) \/ includes(upper, <<"C", "A", "N", "C", "E", "L">>)

isNo(upper) ==
  includes(upper, <<"N", "O">>) \/ includes(upper, <<"C", "A", "N", "C", "E", "L">>)

handleQuoteSent(h, psid, text, env) ==
  LET upper == toUpperCase(text)
      orderId == getState(h.db, psid).pending_order_id
  IN IF isYes(upper)
       THEN LET h1 == [h EXCEPT !.db = setState(updateOrder(@, orderId, [status |-> "confirmed"]),
                                                 psid, "CONFIRMED", orderId)]
            IN saveOut(send(h1, psid, ConfirmedReply(orderId), env), psid, ConfirmedReply(orderId))
     ELSE IF isNo(upper)
       THEN LET h1 == [h EXCEPT !.db = setState(updateOrder(@, orderId, [status |-> "cancelled"]),
                                                 psid, "NEW", << >>)]
            IN saveOut(send(h1, psid, CancelledReply, env), psid, CancelledReply)
     ELSE send(h, psid, YesNoReply, env)

\* handleConfirmed going back to NEW with the pending order kept.
handleConfirmed_keepPending(h, psid, text, hasImage, attachments, env) ==
  IF hasImage THEN processPhoto(h, psid, attachments, env)
  ELSE LET h1 == [h EXCEPT !.db = setState(@, psid, "NEW", getState(@, psid).pending_order_id)]
       IN saveOut(send(h1, psid, WelcomeBackReply, env), psid, WelcomeBackReply)

handleConfirmed(h, psid, text, hasImage, attachments, env) ==
  IF hasImage THEN processPhoto(h, psid, attachments, env)
  ELSE LET h1 == [h EXCEPT !.db = setState(@, psid, "NEW", << >>)]
       IN saveOut(send(h1, psid, WelcomeBackReply, env), psid, WelcomeBackReply)

\* resetUnknown without the write: the unknown stage is left in the table.
resetUnknown_skipped(h, psid) == h

\* The default branch of handleIncoming: db.setState(psid, 'NEW', '').
resetUnknown(h, psid) == [h EXCEPT !.db = setState(@, psid, "NEW", << >>)]

\* handleIncoming on the tables db; the result is the h it ends with.
handleIncoming(db, psid, message, env) ==
  LET state == getState(db, psid)
      h == [db |-> getStateDb(db, psid), calls |-> << >>, threw |-> FALSE]
      text == trim(message.text)
      attachments == message.attachments
      hasImage == \E i \in 1..Len(attachments) : attachments[i].type = "image"
  IN CASE state.stage = "NEW" -> handleNew(h, psid, text, hasImage, attachments, env)
       [] state.stage = "PHOTO_RECEIVED" -> handlePhotoReceived(h, psid, text, env)
       [] state.stage = "DETAILS_RECEIVED" -> handleDetailsReceived(h, psid, text, env)
       [] state.stage = "QUOTE_SENT" -> handleQuoteSent(h, psid, text, env)
       [] state.stage = "CONFIRMED" -> handleConfirmed(h, psid, text, hasImage, attachments, env)
       [] OTHER -> handleNew(resetUnknown(h, psid), psid, text, hasImage, attachments, env)

\* ---------------------------------------------------------- model generation

MAX_RETRIES == 2

UPLOADS_DIR == <<"uploads">>

\* The null of a result field, distinct from every string of the model.
null == <<"<null>">>

\* How one runToolTrace attempt can end: with the model file saved, or with
\* the browser automation throwing an error that has one of these messages
\* (a message can be empty).
ToolTraceErrors == {<<"Timeout 60000ms exceeded.">>, << >>}

ToolTraceOutcomes ==
  [ok : {TRUE}, error : {null}] \cup [ok : {FALSE}, error : ToolTraceErrors]

\* `${timestamp}.stl` under outputDir (the timestamp is left out).
stlPathIn(outputDir) == outputDir \o <<"/", ".stl">>

\* What runToolTrace returns when it does not throw.
traceSuccess(outputDir) == [stlPath |-> stlPathIn(outputDir), success |-> TRUE, error |-> null]

\* processImage when the image file does not exist: no attempt is made.
imageNotFound(imagePath) ==
  [stlPath |-> null, success |-> FALSE, error |-> <<"Image not found: ">> \o imagePath]

\* processImage after the last attempt has failed:
\* lastError?.message || 'ToolTrace unavailable'.
traceFailure(lastError) ==
  [stlPath |-> null, success |-> FALSE,
   error |-> IF lastError # << >> THEN lastError ELSE <<"ToolTrace unavailable">>]

\* ------------------------------------------------------------ vendor service

\* Bound on the number of quotes in a vendor reply.
MaxQuotes == 2

qA == [quoteId |-> <<"q-a">>, vendorId |-> "v-a", price |-> 3000,
       productionTimeSlow |-> 7, productionTimeFast |-> 3]
qB == [quoteId |-> <<"q-b">>, vendorId |-> "v-b", price |-> 2800,
       productionTimeSlow |-> 0, productionTimeFast |-> 5]
qC == [quoteId |-> <<"q-c">>, vendorId |-> "v-c", price |-> 2800,
       productionTimeSlow |-> 0, productionTimeFast |-> 0]
sA == [vendorId |-> "v-a", price |-> 500, shippingId |-> "s-a"]
sB == [vendorId |-> "v-b", price |-> 900, shippingId |-> "s-b"]

\* The quote lists a completed price request can hold: the sequences without
\* repetition of at most MaxQuotes of the quotes above.
QuoteLists ==
  {qs \in UNION {[1..n -> {qA, qB, qC}] : n \in 0..MaxQuotes} :
     \A i, j \in 1..Len(qs) : i # j => qs[i] # qs[j]}

\* The shipping list of a completed price request: the third vendor has no
\* entry.
ShippingLists == {<<sA, sB>>}

\* Bound on the number of quotes in a price request whose selection is
\* checked on its own.
MaxListed == 3

qD == [quoteId |-> <<"q-d">>, vendorId |-> "v-b", price |-> 2300,
       productionTimeSlow |-> 4, productionTimeFast |-> 2]

\* The quote lists for the selection: the sequences without repetition of at
\* most MaxListed of the four quotes, and with each list its permutations.
AllQuoteLists ==
  {qs \in UNION {[1..n -> {qA, qB, qC, qD}] : n \in 0..MaxListed} :
     \A i, j \in 1..Len(qs) : i # j => qs[i] # qs[j]}

\* The shipping lists for the selection: entries for both, one or none of
\* the vendors that ship at a price, in either order.
AllShippingLists == {<< >>, <<sA>>, <<sB>>, <<sA, sB>>, <<sB, sA>>}

\* The first shipping entry of the vendor (none: << >>).
findShipping(shippings, vendorId) ==
  LET hits == SelectSeq(shippings, LAMBDA s : s.vendorId = vendorId)
  IN IF hits = << >> THEN << >> ELSE <<hits[1]>>

\* Step 5 of uploadAndQuote: the combined quote of q.  A leadDays of 0 and a
\* shippingId of "" stand for null.
combine(q, shippings) ==
  LET vendorShipping == findShipping(shippings, q.vendorId)
  IN [quoteId |-> q.quoteId, vendorId |-> q.vendorId, price |-> q.price,
      leadDays |-> IF q.productionTimeSlow # 0 THEN q.productionTimeSlow
                   ELSE q.productionTimeFast,
      shipping |-> IF vendorShipping # << >> THEN vendorShipping[1].price ELSE 0,
      shippingId |-> IF vendorShipping # << >> THEN vendorShipping[1].shippingId ELSE "",
      totalPrice |-> q.price + (IF vendorShipping # << >> THEN vendorShipping[1].price ELSE 0)]

\* insertQuote comparing the model prices, without the shipping.
insertQuote_byPrice(s, q) ==
  LET n == Cardinality({i \in 1..Len(s) : s[i].price <= q.price})
  IN SubSeq(s, 1, n) \o <<q>> \o SubSeq(s, n + 1, Len(s))

\* q placed in the sorted sequence s after the quotes that are not dearer.
insertQuote(s, q) ==
  LET n == Cardinality({i \in 1..Len(s) : s[i].totalPrice <= q.totalPrice})
  IN SubSeq(s, 1, n) \o <<q>> \o SubSeq(s, n + 1, Len(s))

\* quotes.sort((a, b) => a.totalPrice - b.totalPrice): stable, ascending.
RECURSIVE sortByTotal(_)
sortByTotal(quotes) ==
  IF quotes = << >> THEN << >>
  ELSE insertQuote(sortByTotal(SubSeq(quotes, 1, Len(quotes) - 1)), quotes[Len(quotes)])

\* The points at which uploadAndQuote can throw once it has its headers, and
\* the message of the error.
VendorFailures == {"upload", "modelId", "parse", "priceId", "poll"}

vendorError(fail) ==
  CASE fail = "upload" -> <<"Request failed with status code 500">>
    [] fail = "modelId" -> <<"Upload returned no modelId">>
    [] fail = "parse" -> <<"Model parsing timed out">>
    [] fail = "priceId" -> <<"Price request returned no priceId">>
    [] fail = "poll" -> <<"Quote polling timed out">>

\* What the vendor does with one quoting request: fail at one of the points,
\* or complete with a list of quotes and a list of shippings.
VendorReplies ==
  [fail : VendorFailures, quotes : {<< >>}, shippings : {<< >>}]
    \cup [fail : {"none"}, quotes : QuoteLists, shippings : ShippingLists]

\* The iterations of the two polling loops of uploadAndQuote.
PARSE_POLLS == 30

QUOTE_POLLS == 30

\* uploadAndQuote request by request.  step is the request that is awaited:
\* "upload" (also when no call is in progress), "parse" for a poll of the
\* model, "price", "poll" for a poll of the quotes; i is the value of the
\* loop variable of the poll that is awaited.
NoQuoting == [step |-> "upload", i |-> 0]

\* The vendor reply that stands for a throw at the point fail.
thrown(fail) == <<[fail |-> fail, quotes |-> << >>, shippings |-> << >>]>>

\* The return of one request: q is where the call goes on, or v the reply
\* the whole call ends with.  A request that fails ends the call with the
\* error of axios.
uploaded(reply) ==
  CASE reply = "ok" -> [q |-> [step |-> "parse", i |-> 0], v |-> << >>]
    [] reply = "empty" -> [q |-> NoQuoting, v |-> thrown("modelId")]
    [] OTHER -> [q |-> NoQuoting, v |-> thrown("upload")]

\* The parse loop going on for as long as the vendor answers 206.
parsePolled_unbounded(q, status) ==
  CASE status = 200 -> [q |-> [step |-> "price", i |-> 0], v |-> << >>]
    [] status = 206 -> [q |-> [q EXCEPT !.i = (@ + 1) % PARSE_POLLS], v |-> << >>]
    [] OTHER -> [q |-> NoQuoting, v |-> thrown("upload")]

\* check.status is 200, 206, or another one, for which axios throws.
parsePolled(q, status) ==
  CASE status = 200 -> [q |-> [step |-> "price", i |-> 0], v |-> << >>]
    [] status = 206 ->
         IF q.i + 1 < PARSE_POLLS THEN [q |-> [q EXCEPT !.i = @ + 1], v |-> << >>]
         ELSE [q |-> NoQuoting, v |-> thrown("parse")]
    [] OTHER -> [q |-> NoQuoting, v |-> thrown("upload")]

priced(reply) ==
  CASE reply = "ok" -> [q |-> [step |-> "poll", i |-> 0], v |-> << >>]
    [] reply = "empty" -> [q |-> NoQuoting, v |-> thrown("priceId")]
    [] OTHER -> [q |-> NoQuoting, v |-> thrown("upload")]

\* What a poll of the quotes can return: the price request without
\* allComplete (fail is "pending"), a failure of the request ("error"), or
\* the completed price request.
QuotePollReplies ==
  [fail : {"pending", "error"}, quotes : {<< >>}, shippings : {<< >>}]
    \cup {v \in VendorReplies : v.fail = "none"}

quotePolled(q, reply) ==
  CASE reply.fail = "pending" ->
         IF q.i + 1 < QUOTE_POLLS THEN [q |-> [q EXCEPT !.i = @ + 1], v |-> << >>]
         ELSE [q |-> NoQuoting, v |-> thrown("poll")]
    [] reply.fail = "error" -> [q |-> NoQuoting, v |-> thrown("upload")]
    [] OTHER -> [q |-> NoQuoting, v |-> <<reply>>]

\* getHeaders: throws when CRAFTCLOUD_API_KEY is not set.
KeyError == <<"CRAFTCLOUD_API_KEY not set">>

getHeadersThrows(key) == ~key

\* uploadAndQuote under the vendor reply v: threw with an error, or the
\* sorted quotes with the first of them as bestQuote (<< >> for null).
uploadAndQuote(key, v) ==
  IF getHeadersThrows(key)
    THEN [threw |-> TRUE, error |-> KeyError, bestQuote |-> << >>, allQuotes |-> << >>]
  ELSE IF v.fail # "none"
    THEN [threw |-> TRUE, error |-> vendorError(v.fail), bestQuote |-> << >>, allQuotes |-> << >>]
  ELSE LET quotes == sortByTotal([i \in 1..Len(v.quotes) |-> combine(v.quotes[i], v.shippings)])
       IN [threw |-> FALSE, error |-> null,
           bestQuote |-> IF quotes = << >> THEN << >> ELSE <<quotes[1]>>,
           allQuotes |-> quotes]

\* ------------------------------------------------------ pipeline orchestrator

\* The locals of the most recent runOrderPipeline invocation and its place
\* in the code: pc is "idle" before the first run, "generate" while a
\* runToolTrace attempt is awaited, "quote" while uploadAndQuote is awaited,
\* "place" while placeOrder is awaited, "done" once it has returned.  key is
\* whether CRAFTCLOUD_API_KEY is set in the process; order is the row read
\* at the start (<< >> when there is none); calls are the invocations of
\* Model Generation and of the vendor service, outcomes how the runToolTrace
\* attempts ended, placed whether placeOrder returned (<< >> until it ends),
\* writes the updateOrder calls with their outcome; result is << >> until
\* the run returns.
NoRun ==
  [pc |-> "idle", orderId |-> << >>, key |-> FALSE, order |-> << >>,
   stlPath |-> << >>, attempt |-> 0, outcomes |-> << >>, best |-> << >>,
   placed |-> << >>, calls |-> << >>, writes |-> << >>, result |-> << >>]

\* The message of the error a failing record-store write throws.
DbError == <<"database is locked">>

\* A pipeline step works on p = [db, run, dbok, ok]: the tables, the run, the
\* outcomes of the record-store writes the step has still to make, and
\* whether the last write succeeded.

\* db.updateOrder(orderId, fields), which throws when the store fails.
write(p, fields) ==
  LET ok == Head(p.dbok)
  IN [db |-> IF ok THEN updateOrder(p.db, p.run.orderId, fields) ELSE p.db,
      run |-> [p.run EXCEPT !.writes = Append(@, [fields |-> fields, ok |-> ok])],
      dbok |-> Tail(p.dbok),
      ok |-> ok]

called(p, fn, arg) == [p EXCEPT !.run.calls = Append(@, [fn |-> fn, arg |-> arg])]

returns(p, result) == [p EXCEPT !.run.pc = "done", !.run.result = <<result>>]

\* The catch block of runOrderPipeline: the Order is marked error, a failure
\* of that write being swallowed, and the failure result is returned.
catch(p, message) ==
  returns(write(p, [status |-> "error"]),
          [success |-> FALSE, orderId |-> p.run.orderId, stlPath |-> null,
           craftcloudQuote |-> << >>, error |-> message])

handleSelfFulfillment(p, stlPath) ==
  LET p1 == write(p, [status |-> "in-progress"])
  IN IF ~p1.ok THEN catch(p1, DbError)
     ELSE returns(p1, [success |-> TRUE, orderId |-> p.run.orderId, stlPath |-> stlPath,
                       craftcloudQuote |-> << >>, error |-> null])

\* The summary of the best quote in the result of a CLOUD run.
quoteSummary(best) ==
  <<[quoteId |-> best.quoteId, totalPrice |-> best.totalPrice,
     vendorId |-> best.vendorId, leadDays |-> best.leadDays]>>

cloudResult(p, stlPath, best) ==
  [success |-> TRUE, orderId |-> p.run.orderId, stlPath |-> stlPath,
   craftcloudQuote |-> quoteSummary(best), error |-> null]

\* handleCloudFulfillment up to the await of uploadAndQuote, which throws at
\* once when getHeaders does.
handleCloudFulfillment(p, order, stlPath) ==
  LET material == IF order.material # << >> THEN order.material ELSE PLA
      p1 == called(p, "uploadAndQuote", stlPath \o <<"|">> \o material)
  IN IF getHeadersThrows(p.run.key) THEN catch(p1, KeyError)
     ELSE [p1 EXCEPT !.run.pc = "quote"]

\* handleCloudFulfillment from the return of uploadAndQuote under the vendor
\* reply v, up to the await of placeOrder or to its end.
quoteReturned(p, v) ==
  LET quoteResult == uploadAndQuote(p.run.key, v)
  IN IF quoteResult.threw THEN catch(p, quoteResult.error)
     ELSE IF quoteResult.bestQuote = << >> THEN catch(p, <<"No Craftcloud quotes returned">>)
     ELSE LET best == quoteResult.bestQuote[1]
              p1 == write([p EXCEPT !.run.best = <<best>>],
                          [craftcloud_cost |-> best.totalPrice,
                           craftcloud_quote_id |-> best.quoteId])
          IN IF ~p1.ok THEN catch(p1, DbError)
             ELSE IF p.run.key
               THEN [called(p1, "placeOrder", best.quoteId) EXCEPT !.run.pc = "place"]
             ELSE returns(p1, cloudResult(p1, p.run.stlPath, best))

\* placeReturned letting the error of placeOrder reach the catch block.
placeReturned_rethrow(p0, placed) ==
  LET p == [p0 EXCEPT !.run.placed = <<placed>>]
  IN IF placed
       THEN LET p1 == write(p, [status |-> "in-progress"])
            IN returns(p1, cloudResult(p1, p.run.stlPath, p.run.best[1]))
       ELSE catch(p, <<"Cart creation returned no cartId">>)

\* handleCloudFulfillment from the end of placeOrder: the status is written
\* when it returned, and an error of it or of that write is only logged.
placeReturned(p0, placed) ==
  LET p == [p0 EXCEPT !.run.placed = <<placed>>]
      p1 == IF placed THEN write(p, [status |-> "in-progress"]) ELSE p
  IN returns(p1, cloudResult(p1, p.run.stlPath, p.run.best[1]))

\* fulfill sending every mode that is not SELF to the vendor.
fulfill_selfOnly(p, order, stlPath) ==
  LET fulfillment == toUpperCase(order.fulfillment_type)
  IN IF fulfillment = SELF THEN handleSelfFulfillment(p, stlPath)
     ELSE handleCloudFulfillment(p, order, stlPath)

\* Step 3 of runOrderPipeline: the fulfillment branch.
fulfill(p, order, stlPath) ==
  LET fulfillment == toUpperCase(order.fulfillment_type)
  IN IF fulfillment = CLOUD THEN handleCloudFulfillment(p, order, stlPath)
     ELSE IF fulfillment = SELF THEN handleSelfFulfillment(p, stlPath)
     ELSE handleSelfFulfillment(p, stlPath)

\* runOrderPipeline handing an Order without a photo to Model Generation.
runOrderPipeline_noPhotoCheck(db, orderId, key, exists, dbok) ==
  LET found == getOrder(db, orderId)
      p == [db |-> db, dbok |-> dbok, ok |-> TRUE,
            run |-> [NoRun EXCEPT !.pc = "start", !.orderId = orderId, !.key = key,
                                  !.order = found]]
  IN IF found = << >> THEN catch(p, <<"Order ">> \o orderId \o <<" not found">>)
     ELSE LET order == found[1]
              stlPath == order.stl_path
          IN IF stlPath # << >>
               THEN fulfill([p EXCEPT !.run.stlPath = stlPath], order, stlPath)
             ELSE LET p1 == called(p, "processImage", order.photo_path)
                  IN IF ~exists
                       THEN catch(p1, <<"ToolTrace failed: ">> \o imageNotFound(order.photo_path).error)
                       ELSE [called(p1, "runToolTrace", order.photo_path)
                               EXCEPT !.run.pc = "generate", !.run.attempt = 1]

\* runOrderPipeline generating the model whenever the Order has a photo.
runOrderPipeline_regenerate(db, orderId, key, exists, dbok) ==
  LET found == getOrder(db, orderId)
      p == [db |-> db, dbok |-> dbok, ok |-> TRUE,
            run |-> [NoRun EXCEPT !.pc = "start", !.orderId = orderId, !.key = key,
                                  !.order = found]]
  IN IF found = << >> THEN catch(p, <<"Order ">> \o orderId \o <<" not found">>)
     ELSE LET order == found[1]
              stlPath == order.stl_path
          IN IF stlPath # << >> /\ order.photo_path = << >>
               THEN fulfill([p EXCEPT !.run.stlPath = stlPath], order, stlPath)
             ELSE IF order.photo_path = << >>
               THEN catch(p, <<"Order has no photo - cannot generate STL">>)
             ELSE LET p1 == called(p, "processImage", order.photo_path)
                  IN IF ~exists
                       THEN catch(p1, <<"ToolTrace failed: ">> \o imageNotFound(order.photo_path).error)
                       ELSE [called(p1, "runToolTrace", order.photo_path)
                               EXCEPT !.run.pc = "generate", !.run.attempt = 1]

\* runOrderPipeline from its start up to its first await that waits for the
\* outside, or to its end.  exists is whether the photo file is on disk.
runOrderPipeline(db, orderId, key, exists, dbok) ==
  LET found == getOrder(db, orderId)
      p == [db |-> db, dbok |-> dbok, ok |-> TRUE,
            run |-> [NoRun EXCEPT !.pc = "start", !.orderId = orderId, !.key = key,
                                  !.order = found]]
  IN IF found = << >> THEN catch(p, <<"Order ">> \o orderId \o <<" not found">>)
     ELSE LET order == found[1]
              stlPath == order.stl_path
          IN IF stlPath # << >>
               THEN fulfill([p EXCEPT !.run.stlPath = stlPath], order, stlPath)
             ELSE IF order.photo_path = << >>
               THEN catch(p, <<"Order has no photo - cannot generate STL">>)
             ELSE LET p1 == called(p, "processImage", order.photo_path)
                  IN IF ~exists
                       THEN catch(p1, <<"ToolTrace failed: ">> \o imageNotFound(order.photo_path).error)
                       ELSE [called(p1, "runToolTrace", order.photo_path)
                               EXCEPT !.run.pc = "generate", !.run.attempt = 1]

\* The end of a runToolTrace attempt, as the run records it.
ended(p, outcome) == [p EXCEPT !.run.outcomes = Append(@, outcome)]

\* attemptReturned going on to the fulfillment branch without persisting
\* the model file.
attemptReturned_noPersist(p0, outcome) ==
  LET p == ended(p0, outcome)
  IN IF outcome.ok
       THEN LET traceResult == traceSuccess(UPLOADS_DIR)
                stlPath == traceResult.stlPath
            IN fulfill([p EXCEPT !.run.stlPath = stlPath], p.run.order[1], stlPath)
     ELSE IF p.run.attempt < MAX_RETRIES
       THEN [called(p, "runToolTrace", p.run.order[1].photo_path) EXCEPT !.run.attempt = @ + 1]
     ELSE catch(p, <<"ToolTrace failed: ">> \o traceFailure(outcome.error).error)

\* attemptReturned retrying once more than MAX_RETRIES allows.
attemptReturned_extraTry(p0, outcome) ==
  LET p == ended(p0, outcome)
  IN IF outcome.ok
       THEN LET traceResult == traceSuccess(UPLOADS_DIR)
                stlPath == traceResult.stlPath
                p1 == write([p EXCEPT !.run.stlPath = stlPath], [stl_path |-> stlPath])
            IN IF ~p1.ok THEN catch(p1, DbError)
               ELSE fulfill(p1, p.run.order[1], stlPath)
     ELSE IF p.run.attempt <= MAX_RETRIES
       THEN [called(p, "runToolTrace", p.run.order[1].photo_path) EXCEPT !.run.attempt = @ + 1]
     ELSE catch(p, <<"ToolTrace failed: ">> \o traceFailure(outcome.error).error)

\* runOrderPipeline from the end of a runToolTrace attempt, through the
\* retry loop of processImage.
attemptReturned(p0, outcome) ==
  LET p == ended(p0, outcome)
  IN IF outcome.ok
       THEN LET traceResult == traceSuccess(UPLOADS_DIR)
                stlPath == traceResult.stlPath
                p1 == write([p EXCEPT !.run.stlPath = stlPath], [stl_path |-> stlPath])
            IN IF ~p1.ok THEN catch(p1, DbError)
               ELSE fulfill(p1, p.run.order[1], stlPath)
     ELSE IF p.run.attempt < MAX_RETRIES
       THEN [called(p, "runToolTrace", p.run.order[1].photo_path) EXCEPT !.run.attempt = @ + 1]
     ELSE catch(p, <<"ToolTrace failed: ">> \o traceFailure(outcome.error).error)

\* ------------------------------------------------------------------ webhook

T_empty == << >>
T_details == <<"P", "E", "T", "G", ",", " ", "r", "e", "d", ",", " ", "s", "m", "a", "l", "l">>
T_cloud == <<"I", "'", "l", "l", " ", "d", "o", " ", "c", "l", "o", "u", "d", " ", "p", "r", "i", "n", "t", "i", "n", "g">>
T_yes == <<"y", "e", "s">>
T_no == <<"n", "a", "h", ",", " ", "n", "o", " ", "t", "h", "a", "n", "k", "s">>
T_both == <<"y", "e", "s", ",", " ", "n", "o", " ", "r", "u", "s", "h">>

Texts == {T_empty, T_details, T_cloud, T_yes, T_no, T_both}

Image == [type |-> "image", url |-> <<"https://cdn.example/photo">>]

\* The inbound events: every text without attachment from either customer,
\* and a photo without text.
Inbound ==
  [psid : Customers, text : Texts, attachments : {<< >>}]
    \cup [psid : Customers, text : {T_empty}, attachments : {<<Image>>}]

\* What a turn does not control: the ID generateOrderId returns and the
\* outcomes of the download and of the send.  An event without attachment
\* never reaches processPhoto, so the first two are fixed for it.  Orders
\* are created in different seconds.
Envs(ev) ==
  IF ev.attachments = << >>
    THEN [orderId : {orderIdOf(10000)}, dl_ok : {TRUE}, send_ok : BOOLEAN, tick : {1}]
    ELSE [orderId : OrderIds, dl_ok : BOOLEAN, send_ok : BOOLEAN, tick : {1}]

\* No input is drawn where the inputs come with the actions.
NoDraw == << >>

\* Nobody has taken a step, and the state machine has closed no Order.
NoOwn == [actor |-> "none", closed |-> {}]

NoTurn ==
  [psid |-> "", text |-> << >>, attachments |-> << >>,
   state |-> [stage |-> "", pending_order_id |-> << >>],
   calls |-> << >>, threw |-> FALSE]

\* The text the webhook logs for an inbound event.
inboundLogText(text, attachments) ==
  IF text # << >> THEN text
  ELSE IF Len(attachments) # 0 THEN <<"[image]">> ELSE <<"[empty]">>

\* POST /webhook delivering one messaging event ev: the inbound Message is
\* saved, then handleIncoming runs to its end; an exception of the handler
\* is caught and logged by the route.
WebhookPost(ev, env) ==
  \E db0 \in {saveMessage(Db, ev.psid, "in", inboundLogText(ev.text, ev.attachments))} :
    \E h \in {handleIncoming(db0, ev.psid, [text |-> ev.text, attachments |-> ev.attachments], env)} :
      /\ orders' = h.db.orders
      /\ conversation_state' = h.db.conversation_state
      /\ messages' = h.db.messages
      /\ turn' = [psid |-> ev.psid, text |-> ev.text, attachments |-> ev.attachments,
                  state |-> getState(db0, ev.psid),
                  calls |-> h.calls, threw |-> h.threw]
      /\ UNCHANGED <<run, aside>>

Init ==
  /\ orders = << >>
  /\ conversation_state = << >>
  /\ messages = << >>
  /\ turn = NoTurn
  /\ run = NoRun
  /\ drawn = NoDraw
  /\ quoting = NoQuoting
  /\ waiting = << >>
  /\ run2 = NoRun
  /\ own = NoOwn

\* Both customers write, until the Message log holds MaxMessages rows.
Next ==
  \E ev \in Inbound :
    /\ Len(messages) < MaxMessages
    /\ \E env \in Envs(ev) : WebhookPost(ev, env)

Spec == Init /\ [][Next]_vars

\* One customer writes, up to the answer to the quote.
NextOne ==
  \E ev \in Inbound :
    /\ ev.psid = "c1"
    /\ Len(messages) < MaxMessagesOne
    /\ \E env \in Envs(ev) : WebhookPost(ev, env)

SpecOne == Init /\ [][NextOne]_vars

\* One customer writes, long enough to come back after a confirmed order.
NextLong ==
  \E ev \in Inbound :
    /\ ev.psid = "c1"
    /\ Len(messages) < MaxMessagesLong
    /\ \E env \in Envs(ev) : WebhookPost(ev, env)

SpecLong == Init /\ [][NextLong]_vars

\* --------------------------------------------------- operator routes, pipeline

validStatuses == {"new", "confirmed", "in-progress", "shipped", "cancelled", "error"}

\* The status values an operator request can carry: the valid ones and one
\* that is not.
BodyStatuses == validStatuses \cup {"archived"}

\* The status route writing whatever status the body carries.
postStatus_unchecked(db, orderId, status) ==
  [db |-> updateOrder(db, orderId, [status |-> status]), code |-> 200]

\* The handler of POST /api/orders/:orderId/status: the tables after it and
\* the HTTP status of its answer.
postStatus(db, orderId, status) ==
  IF status \notin validStatuses THEN [db |-> db, code |-> 400]
  ELSE [db |-> updateOrder(db, orderId, [status |-> status]), code |-> 200]

\* POST /api/orders/:orderId/status with a status that is accepted (any
\* other is answered 400 and changes nothing).
PostStatus(orderId, status) ==
  /\ \E r \in {postStatus(Db, orderId, status)} :
       /\ r.code = 200
       /\ orders' = r.db.orders
  /\ UNCHANGED <<conversation_state, messages, turn, run, aside>>

\* The outcomes of the record-store writes of a pipeline step that makes at
\* most n of them: TRUE for a write that succeeds.
DbOutcomes(n) == [1..n -> BOOLEAN]

\* The outcomes when the record store accepts every write.
AllOk(n) == [i \in 1..n |-> TRUE]

\* The tables and the run, for a pipeline step.
Pipe(dbok) == [db |-> Db, run |-> run, dbok |-> dbok, ok |-> TRUE]

\* POST /api/orders/:orderId/run-pipeline for an Order that exists (any
\* other is answered 404): runOrderPipeline starts, and runs to its first
\* await on Model Generation or on the vendor, or to its end.
PostRunPipeline(orderId, key, exists, dbok) ==
  /\ run.pc \in {"idle", "done"}
  /\ getOrder(Db, orderId) # << >>
  /\ \E p \in {runOrderPipeline(Db, orderId, key, exists, dbok)} :
       /\ orders' = p.db.orders
       /\ run' = p.run
  /\ UNCHANGED <<conversation_state, messages, turn, aside>>

\* A runToolTrace attempt ends.
ToolTraceReturns(outcome, dbok) ==
  /\ run.pc = "generate"
  /\ \E p \in {attemptReturned(Pipe(dbok), outcome)} :
       /\ orders' = p.db.orders
       /\ run' = p.run
  /\ UNCHANGED <<conversation_state, messages, turn, aside>>

\* uploadAndQuote ends.
QuoteReturns(v, dbok) ==
  /\ run.pc = "quote"
  /\ \E p \in {quoteReturned(Pipe(dbok), v)} :
       /\ orders' = p.db.orders
       /\ run' = p.run
  /\ UNCHANGED <<conversation_state, messages, turn, aside>>

\* placeOrder ends, having placed the vendor order or thrown.
PlaceReturns(placed, dbok) ==
  /\ run.pc = "place"
  /\ \E p \in {placeReturned(Pipe(dbok), placed)} :
       /\ orders' = p.db.orders
       /\ run' = p.run
  /\ UNCHANGED <<conversation_state, messages, turn, aside>>

\* The events of the customer who orders: a photo, the details, the choice
\* of cloud printing, the confirmation.
InboundPipe ==
  {ev \in Inbound : ev.psid = "c1" /\ ev.text \in {T_empty, T_details, T_cloud, T_yes}
                      /\ (ev.text = T_empty => ev.attachments # << >>)}

\* The sends succeed, and the Order gets the first ID.
EnvsPipe(ev) ==
  IF ev.attachments = << >>
    THEN [orderId : {orderIdOf(10000)}, dl_ok : {TRUE}, send_ok : {TRUE}, tick : {1}]
    ELSE [orderId : {orderIdOf(10000)}, dl_ok : BOOLEAN, send_ok : {TRUE}, tick : {1}]

WebhookPipe ==
  \E ev \in InboundPipe :
    /\ Len(messages) < MaxMessagesPipe
    /\ \E env \in EnvsPipe(ev) : WebhookPost(ev, env)

\* One customer orders while the operator runs the pipeline, one run at a
\* time, and the record store accepts every write.
NextPipe ==
  \/ WebhookPipe
  \/ \E orderId \in OrderIds : \E key, exists \in BOOLEAN :
       PostRunPipeline(orderId, key, exists, AllOk(2))
  \/ \E outcome \in ToolTraceOutcomes : ToolTraceReturns(outcome, AllOk(3))
  \/ \E v \in VendorReplies : QuoteReturns(v, AllOk(2))
  \/ \E placed \in BOOLEAN : PlaceReturns(placed, AllOk(1))

SpecPipe == Init /\ [][NextPipe]_vars

\* The same, with a record store whose writes can fail.
NextFault ==
  \/ WebhookPipe
  \/ \E orderId \in OrderIds : \E key, exists \in BOOLEAN : \E dbok \in DbOutcomes(2) :
       PostRunPipeline(orderId, key, exists, dbok)
  \/ \E outcome \in ToolTraceOutcomes : \E dbok \in DbOutcomes(3) : ToolTraceReturns(outcome, dbok)
  \/ \E v \in VendorReplies : \E dbok \in DbOutcomes(2) : QuoteReturns(v, dbok)
  \/ \E placed \in BOOLEAN : \E dbok \in DbOutcomes(1) : PlaceReturns(placed, dbok)

SpecFault == Init /\ [][NextFault]_vars

\* One customer orders while the operator sets statuses.
NextOps ==
  \/ WebhookPipe
  \/ \E orderId \in OrderIds : \E status \in BodyStatuses : PostStatus(orderId, status)

SpecOps == Init /\ [][NextOps]_vars

\* Bound on the Message log while the customer, the operator and the
\* pipeline all act.
MaxMessagesAll == 7

\* The events of the customer who orders, and who can decline the quote.
InboundAll == InboundPipe \cup {[psid |-> "c1", text |-> T_no, attachments |-> << >>]}

\* One customer writes while the operator ships Orders, or posts a status
\* that does not exist, and runs the pipeline, one run at a time, on photos
\* that are on disk.
NextAll ==
  \/ \E ev \in InboundAll :
       /\ Len(messages) < MaxMessagesAll
       /\ \E env \in EnvsPipe(ev) : WebhookPost(ev, env)
  \/ \E status \in {"shipped", "archived"} : PostStatus(orderIdOf(10000), status)
  \/ \E key \in BOOLEAN : PostRunPipeline(orderIdOf(10000), key, TRUE, AllOk(2))
  \/ \E outcome \in ToolTraceOutcomes : ToolTraceReturns(outcome, AllOk(3))
  \/ \E v \in VendorReplies : QuoteReturns(v, AllOk(2))
  \/ \E placed \in BOOLEAN : PlaceReturns(placed, AllOk(1))

SpecAll == Init /\ [][NextAll]_vars

\* Bound on the number of words in a details text that is parsed on its own.
MaxWords == 3

\* Words of a details reply: the material and size keywords in several
\* letter cases, a color, a word that contains a keyword, a letter, and the
\* empty word, which puts a separator at an end of the text or two in a row.
DetailWords ==
  {<<"P", "E", "T", "G">>, <<"p", "l", "a", "+">>, <<"P", "l", "a">>,
   <<"f", "u", "l", "l">>, <<"d", "r", "a", "w", "e", "r">>, small, medium,
   <<"L", "a", "r", "g", "e">>, <<"r", "e", "d">>, <<"p", "l", "a", "i", "n">>,
   <<"a">>, << >>}

DetailSeparators == {<<",", " ">>, <<"/">>}

\* The texts of at most n words.
RECURSIVE DetailTexts(_)
DetailTexts(n) ==
  IF n <= 1 THEN DetailWords
  ELSE DetailTexts(n - 1) \cup
         {t \o sep \o w : t \in DetailTexts(n - 1), sep \in DetailSeparators, w \in DetailWords}

\* parseDetails on its own: a text is drawn, and parsed once.
InitParse ==
  /\ orders = << >>
  /\ conversation_state = << >>
  /\ messages = << >>
  /\ turn = NoTurn
  /\ run = NoRun
  /\ drawn \in [text : DetailTexts(MaxWords), parsed : {<< >>}]
  /\ quoting = NoQuoting
  /\ waiting = << >>
  /\ run2 = NoRun
  /\ own = NoOwn

ParseDetails ==
  /\ drawn.parsed = << >>
  /\ drawn' = [drawn EXCEPT !.parsed = <<parseDetails(drawn.text)>>]
  /\ UNCHANGED <<orders, conversation_state, messages, turn, run, quoting, waiting, run2, own>>

SpecParse == InitParse /\ [][ParseDetails]_vars

\* The request of uploadAndQuote that is awaited has returned as r says:
\* the call goes on to its next request, or ends and handleCloudFulfillment
\* goes on with its reply.
Requested(r, dbok) ==
  /\ IF r.v = << >>
       THEN UNCHANGED <<orders, run>>
       ELSE \E p \in {quoteReturned(Pipe(dbok), r.v[1])} :
              /\ orders' = p.db.orders
              /\ run' = p.run
  /\ quoting' = r.q
  /\ UNCHANGED <<conversation_state, messages, turn, drawn, waiting, run2, own>>

UploadReturns(reply, dbok) ==
  /\ run.pc = "quote" /\ quoting.step = "upload"
  /\ Requested(uploaded(reply), dbok)

ParsePollReturns(status, dbok) ==
  /\ run.pc = "quote" /\ quoting.step = "parse"
  /\ Requested(parsePolled(quoting, status), dbok)

PriceReturns(reply, dbok) ==
  /\ run.pc = "quote" /\ quoting.step = "price"
  /\ Requested(priced(reply), dbok)

QuotePollReturns(reply, dbok) ==
  /\ run.pc = "quote" /\ quoting.step = "poll"
  /\ Requested(quotePolled(quoting, reply), dbok)

\* An awaited call of the run returns or fails.
Returns ==
  \/ \E outcome \in ToolTraceOutcomes : \E dbok \in DbOutcomes(3) : ToolTraceReturns(outcome, dbok)
  \/ \E reply \in {"ok", "empty", "error"} : \E dbok \in DbOutcomes(1) : UploadReturns(reply, dbok)
  \/ \E status \in {200, 206, 500} : \E dbok \in DbOutcomes(1) : ParsePollReturns(status, dbok)
  \/ \E reply \in {"ok", "empty", "error"} : \E dbok \in DbOutcomes(1) : PriceReturns(reply, dbok)
  \/ \E reply \in QuotePollReplies :
       \E dbok \in DbOutcomes(2) : QuotePollReturns(reply, dbok)
  \/ \E placed \in BOOLEAN : \E dbok \in DbOutcomes(1) : PlaceReturns(placed, dbok)

\* The tables before the first delivery.
NoRows == [orders |-> << >>, conversation_state |-> << >>, messages |-> << >>]

\* The tables after POST /webhook has delivered ev on the tables db.
delivered(db, ev, env) ==
  handleIncoming(saveMessage(db, ev.psid, "in", inboundLogText(ev.text, ev.attachments)),
                 ev.psid, [text |-> ev.text, attachments |-> ev.attachments], env).db

\* A run that waits for uploadAndQuote: the customer has sent a photo, the
\* details, the choice of cloud printing and the confirmation, the operator
\* has started the pipeline with CRAFTCLOUD_API_KEY set, and the first
\* attempt of Model Generation has succeeded.
QuotingRun ==
  LET env == [orderId |-> orderIdOf(10000), dl_ok |-> TRUE, send_ok |-> TRUE, tick |-> 1]
      photo == [psid |-> "c1", text |-> T_empty, attachments |-> <<Image>>]
      db1 == delivered(NoRows, photo, env)
      db2 == delivered(db1, [photo EXCEPT !.text = T_details, !.attachments = << >>], env)
      db3 == delivered(db2, [photo EXCEPT !.text = T_cloud, !.attachments = << >>], env)
      db4 == delivered(db3, [photo EXCEPT !.text = T_yes, !.attachments = << >>], env)
      p1 == runOrderPipeline(db4, orderIdOf(10000), TRUE, TRUE, AllOk(2))
  IN attemptReturned([p1 EXCEPT !.dbok = AllOk(3)], [ok |-> TRUE, error |-> null])

\* The quoting step on its own: a run waits for uploadAndQuote, and the
\* completed price request the vendor will answer with is drawn.
InitQuote ==
  /\ \E p \in {QuotingRun} :
       /\ orders = p.db.orders
       /\ conversation_state = p.db.conversation_state
       /\ messages = p.db.messages
       /\ run = p.run
  /\ turn = NoTurn
  /\ drawn \in [fail : {"none"}, quotes : AllQuoteLists, shippings : AllShippingLists]
  /\ quoting = NoQuoting
  /\ waiting = << >>
  /\ run2 = NoRun
  /\ own = NoOwn

NextQuote ==
  \/ QuoteReturns(drawn, AllOk(2))
  \/ \E placed \in BOOLEAN : PlaceReturns(placed, AllOk(1))

SpecQuote == InitQuote /\ [][NextQuote]_vars

\* The tables the runs of the pipeline start from: the customer has sent a
\* photo whose download failed, or a photo, or a photo, the details and the
\* choice of cloud printing.
RunTables ==
  LET env == [orderId |-> orderIdOf(10000), dl_ok |-> TRUE, send_ok |-> TRUE, tick |-> 1]
      photo == [psid |-> "c1", text |-> T_empty, attachments |-> <<Image>>]
      db1 == delivered(NoRows, photo, env)
      db2 == delivered(db1, [photo EXCEPT !.text = T_details, !.attachments = << >>], env)
  IN {delivered(NoRows, photo, [env EXCEPT !.dl_ok = FALSE]), db1,
      delivered(db2, [photo EXCEPT !.text = T_cloud, !.attachments = << >>], env)}

InitLive ==
  /\ \E db \in RunTables :
       /\ orders = db.orders
       /\ conversation_state = db.conversation_state
       /\ messages = db.messages
  /\ turn = NoTurn
  /\ run = NoRun
  /\ drawn = NoDraw
  /\ quoting = NoQuoting
  /\ waiting = << >>
  /\ run2 = NoRun
  /\ own = NoOwn

\* The operator runs the pipeline, one run at a time, and the calls it
\* awaits return one by one; the record store can fail.
NextLive ==
  \/ \E key, exists \in BOOLEAN : \E dbok \in DbOutcomes(2) :
       PostRunPipeline(orderIdOf(10000), key, exists, dbok)
  \/ Returns

\* Every call the run awaits returns or fails in the end: the continuation
\* of an await runs once its promise is settled.
SpecLive == InitLive /\ [][NextLive]_vars /\ WF_vars(Returns)

\* Bound on the Message log of the customer who orders again.
MaxMessagesTalk == 9

\* One customer orders, confirms or declines, and comes back, one event at a
\* time; the downloads and the sends succeed, and generateOrderId returns
\* any of its values.
NextTalk ==
  \E ev \in InboundAll :
    /\ Len(messages) < MaxMessagesTalk
    /\ \E env \in [orderId : IF ev.attachments = << >> THEN {orderIdOf(10000)} ELSE OrderIds,
                    dl_ok : {TRUE}, send_ok : {TRUE}, tick : {1}] :
         WebhookPost(ev, env)

SpecTalk == Init /\ [][NextTalk]_vars

\* The tables and the second run, for a pipeline step.
Pipe2(dbok) == [db |-> Db, run |-> run2, dbok |-> dbok, ok |-> TRUE]

\* A step of the second invocation has ended as p.
Second(p) ==
  /\ orders' = p.db.orders
  /\ run2' = p.run
  /\ UNCHANGED <<conversation_state, messages, turn, run, drawn, quoting, waiting, own>>

\* POST /api/orders/:orderId/run-pipeline once more, whether or not the
\* first run has returned, and the awaits of that second invocation.
PostRunPipeline2(orderId, key, exists, dbok) ==
  /\ run2.pc \in {"idle", "done"}
  /\ getOrder(Db, orderId) # << >>
  /\ Second(runOrderPipeline(Db, orderId, key, exists, dbok))

ToolTraceReturns2(outcome, dbok) ==
  run2.pc = "generate" /\ Second(attemptReturned(Pipe2(dbok), outcome))

QuoteReturns2(v, dbok) ==
  run2.pc = "quote" /\ Second(quoteReturned(Pipe2(dbok), v))

PlaceReturns2(placed, dbok) ==
  run2.pc = "place" /\ Second(placeReturned(Pipe2(dbok), placed))

\* The operator triggers the pipeline for the Order twice, the second time
\* at any moment; the photo is on disk and the record store accepts every
\* write.
NextTwice ==
  \/ \E key \in BOOLEAN : PostRunPipeline(orderIdOf(10000), key, TRUE, AllOk(2))
  \/ \E outcome \in ToolTraceOutcomes : ToolTraceReturns(outcome, AllOk(3))
  \/ \E v \in VendorReplies : QuoteReturns(v, AllOk(2))
  \/ \E placed \in BOOLEAN : PlaceReturns(placed, AllOk(1))
  \/ \E key \in BOOLEAN : PostRunPipeline2(orderIdOf(10000), key, TRUE, AllOk(2))
  \/ \E outcome \in ToolTraceOutcomes : ToolTraceReturns2(outcome, AllOk(3))
  \/ \E v \in VendorReplies : QuoteReturns2(v, AllOk(2))
  \/ \E placed \in BOOLEAN : PlaceReturns2(placed, AllOk(1))

SpecTwice == InitLive /\ [][NextTwice]_vars

\* Bound on the number of deliveries of one customer that overlap.
MaxWaiting == 2

\* handleIncoming for a photo in stage NEW or CONFIRMED, from the start of
\* the delivery to the await of downloadAttachment in processPhoto: the
\* inbound Message is saved and the state is read; w is the invocation that
\* waits.
photoArrived(db, ev) ==
  [db |-> getStateDb(saveMessage(db, ev.psid, "in", inboundLogText(ev.text, ev.attachments)),
                     ev.psid),
   w |-> [psid |-> ev.psid, at |-> "download",
          url |-> SelectSeq(ev.attachments, LAMBDA a : a.type = "image")[1].url]]

\* processPhoto from the return of downloadAttachment to the await of
\* sendText: the Order is created and the state set.  w is << >> when
\* createOrder threw, which ends the invocation.
downloaded(db, w, env) ==
  IF createOrderFails(db, env.orderId) THEN [db |-> db, w |-> << >>]
  ELSE [db |-> setState(createOrder(db, env.orderId, w.psid,
                                    downloadAttachment(w.url, w.psid, env.dl_ok), env.tick),
                        w.psid, "PHOTO_RECEIVED", env.orderId),
        w |-> <<[w EXCEPT !.at = "sendText"]>>]

\* processPhoto from the return of sendText to its end.
replied(db, w) == saveMessage(db, w.psid, "out", PhotoReply)

\* The invocations that wait, without the k-th, or with w in its place.
resumed(k, w) == SubSeq(waiting, 1, k - 1) \o w \o SubSeq(waiting, k + 1, Len(waiting))

\* The event is a photo that handleIncoming hands to processPhoto, which
\* downloads it.
TakesPhoto(ev) ==
  /\ \E i \in 1..Len(ev.attachments) : ev.attachments[i].type = "image"
  /\ getState(Db, ev.psid).stage \in {"NEW", "CONFIRMED"}

PhotoArrives(ev) ==
  /\ TakesPhoto(ev)
  /\ Len(waiting) < MaxWaiting
  /\ \E r \in {photoArrived(Db, ev)} :
       /\ orders' = r.db.orders
       /\ conversation_state' = r.db.conversation_state
       /\ messages' = r.db.messages
       /\ waiting' = Append(waiting, r.w)
  /\ UNCHANGED <<turn, run, drawn, quoting, run2, own>>

DownloadReturns(k, env) ==
  /\ k \in 1..Len(waiting) /\ waiting[k].at = "download"
  /\ \E r \in {downloaded(Db, waiting[k], env)} :
       /\ orders' = r.db.orders
       /\ conversation_state' = r.db.conversation_state
       /\ waiting' = resumed(k, r.w)
  /\ UNCHANGED <<messages, turn, run, drawn, quoting, run2, own>>

SendReturns(k) ==
  /\ k \in 1..Len(waiting) /\ waiting[k].at = "sendText"
  /\ messages' = replied(Db, waiting[k]).messages
  /\ waiting' = resumed(k, << >>)
  /\ UNCHANGED <<orders, conversation_state, turn, run, drawn, quoting, run2, own>>

\* Deliveries of one customer overlap.  A photo that processPhoto downloads
\* is handled await by await; every other event in one step, the awaits of
\* its handler coming after its last write to the Orders and to the
\* conversation state.
NextRace ==
  \/ \E ev \in InboundPipe : Len(messages) < MaxMessagesPipe /\ PhotoArrives(ev)
  \/ \E ev \in InboundPipe :
       /\ Len(messages) < MaxMessagesPipe /\ ~TakesPhoto(ev)
       /\ \E env \in EnvsPipe(ev) : WebhookPost(ev, env)
  \/ \E k \in 1..MaxWaiting : \E env \in [orderId : OrderIds, dl_ok : BOOLEAN, tick : {1}] :
       DownloadReturns(k, env)
  \/ \E k \in 1..MaxWaiting : SendReturns(k)

SpecRace == Init /\ [][NextRace]_vars

\* Bound on the number of messaging events in one delivery.
MaxBatch == 3

\* The messaging events of a delivery: a photo from either customer, the
\* details from the first, an echo of a reply, and an event without sender.
BatchEvents ==
  {[psid |-> "c1", text |-> T_empty, attachments |-> <<Image>>, is_echo |-> FALSE],
   [psid |-> "c2", text |-> T_empty, attachments |-> <<Image>>, is_echo |-> FALSE],
   [psid |-> "c1", text |-> T_details, attachments |-> << >>, is_echo |-> FALSE],
   [psid |-> "c1", text |-> T_yes, attachments |-> << >>, is_echo |-> TRUE],
   [psid |-> "", text |-> T_yes, attachments |-> << >>, is_echo |-> FALSE]}

\* The loop of router.post from the i-th event of the batch on.  ids gives
\* for each customer the ID generateOrderId returns, and failAt the event at
\* whose saveMessage the record store fails (0: none).  An exception leaves
\* both loops for the catch block around them.  handled are the events
\* the loop has taken up, the one that threw included.
RECURSIVE postWebhook(_, _, _, _, _)
postWebhook(db, batch, ids, failAt, i) ==
  IF i > Len(batch) THEN [db |-> db, handled |-> << >>, threw |-> FALSE]
  ELSE LET event == batch[i]
           psid == event.psid
       IN IF psid = "" \/ event.is_echo THEN postWebhook(db, batch, ids, failAt, i + 1)
          ELSE IF failAt = i THEN [db |-> db, handled |-> <<i>>, threw |-> TRUE]
          ELSE LET db0 == saveMessage(db, psid, "in", inboundLogText(event.text, event.attachments))
                   h == handleIncoming(db0, psid,
                                       [text |-> event.text, attachments |-> event.attachments],
                                       [orderId |-> ids[psid], dl_ok |-> TRUE, send_ok |-> TRUE,
                                        tick |-> 1])
               IN IF h.threw THEN [db |-> h.db, handled |-> <<i>>, threw |-> TRUE]
                  ELSE LET rest == postWebhook(h.db, batch, ids, failAt, i + 1)
                       IN [rest EXCEPT !.handled = <<i>> \o @]

\* One delivery on its own: the batch is drawn, with what the delivery does
\* not control, and POST /webhook handles it.
InitBatch ==
  /\ orders = << >>
  /\ conversation_state = << >>
  /\ messages = << >>
  /\ turn = NoTurn
  /\ run = NoRun
  /\ quoting = NoQuoting
  /\ waiting = << >>
  /\ run2 = NoRun
  /\ own = NoOwn
  /\ drawn \in [batch : UNION {[1..n -> BatchEvents] : n \in 1..MaxBatch},
                ids : [Customers -> OrderIds], failAt : 0..MaxBatch,
                done : {FALSE}, handled : {<< >>}, threw : {FALSE}]

PostBatch ==
  /\ ~drawn.done
  /\ \E r \in {postWebhook(Db, drawn.batch, drawn.ids, drawn.failAt, 1)} :
       /\ orders' = r.db.orders
       /\ conversation_state' = r.db.conversation_state
       /\ messages' = r.db.messages
       /\ drawn' = [drawn EXCEPT !.done = TRUE, !.handled = r.handled, !.threw = r.threw]
  /\ UNCHANGED <<turn, run, quoting, waiting, run2, own>>

SpecBatch == InitBatch /\ [][PostBatch]_vars

\* Bound on the Message log where the ownership of the tables is followed.
MaxMessagesOwn == 11

\* The Order the turn that starts in state before and ends in state after
\* has closed: handleQuoteSent leaves QUOTE_SENT only after it has written
\* confirmed or cancelled on the pending Order.
closedBy(before, after) ==
  IF before.stage = "QUOTE_SENT" /\ after.stage # "QUOTE_SENT"
    THEN {before.pending_order_id} ELSE {}

\* POST /webhook with one event, handled by the state machine.
WebhookOwn(ev, env) ==
  \E db0 \in {saveMessage(Db, ev.psid, "in", inboundLogText(ev.text, ev.attachments))} :
    \E h \in {handleIncoming(db0, ev.psid, [text |-> ev.text, attachments |-> ev.attachments], env)} :
      /\ orders' = h.db.orders
      /\ conversation_state' = h.db.conversation_state
      /\ messages' = h.db.messages
      /\ turn' = [psid |-> ev.psid, text |-> ev.text, attachments |-> ev.attachments,
                  state |-> getState(db0, ev.psid),
                  calls |-> h.calls, threw |-> h.threw]
      /\ own' = [actor |-> "machine",
                 closed |-> own.closed \cup closedBy(getState(db0, ev.psid), getState(h.db, ev.psid))]
      /\ UNCHANGED <<run, drawn, quoting, waiting, run2>>

\* POST /api/orders/:orderId/status by the operator, with the tables as the
\* handler leaves them.
StatusOwn(orderId, status) ==
  /\ \E r \in {postStatus(Db, orderId, status)} :
       /\ r.code = 200
       /\ orders' = r.db.orders
       /\ conversation_state' = r.db.conversation_state
       /\ messages' = r.db.messages
  /\ own' = [own EXCEPT !.actor = "operator"]
  /\ UNCHANGED <<turn, run, drawn, quoting, waiting, run2>>

\* A step of the pipeline that ends as p, with the tables as it leaves them.
PipelineOwn(p) ==
  /\ orders' = p.db.orders
  /\ conversation_state' = p.db.conversation_state
  /\ messages' = p.db.messages
  /\ run' = p.run
  /\ own' = [own EXCEPT !.actor = "pipeline"]
  /\ UNCHANGED <<turn, drawn, quoting, waiting, run2>>

\* One customer confirms or declines, and orders again with the details,
\* while the operator ships the first Order and runs the pipeline on it;
\* generateOrderId returns any of its values.
NextOwn ==
  \/ \E ev \in {ev \in InboundAll : ev.text # T_cloud} :
       /\ Len(messages) < MaxMessagesOwn
       /\ \E env \in [orderId : IF ev.attachments = << >> THEN {orderIdOf(10000)} ELSE OrderIds,
                       dl_ok : {TRUE}, send_ok : {TRUE}, tick : {1}] :
            WebhookOwn(ev, env)
  \/ StatusOwn(orderIdOf(10000), "shipped")
  \/ /\ run.pc \in {"idle", "done"}
     /\ getOrder(Db, orderIdOf(10000)) # << >>
     /\ PipelineOwn(runOrderPipeline(Db, orderIdOf(10000), TRUE, TRUE, AllOk(2)))
  \/ /\ run.pc = "generate"
     /\ \E ok \in BOOLEAN :
          PipelineOwn(attemptReturned(Pipe(AllOk(3)), [ok |-> ok, error |-> IF ok THEN null ELSE << >>]))
  \/ /\ run.pc = "quote"
     /\ \E quotes \in {<< >>, <<qA>>} :
          PipelineOwn(quoteReturned(Pipe(AllOk(2)),
                                    [fail |-> "none", quotes |-> quotes, shippings |-> <<sA, sB>>]))
  \/ /\ run.pc = "place"
     /\ \E placed \in BOOLEAN : PipelineOwn(placeReturned(Pipe(AllOk(1)), placed))

\* The customer has sent a photo, the details and the choice of cloud
\* printing, and has the quote for the first Order.
QuoteSentTables ==
  LET env == [orderId |-> orderIdOf(10000), dl_ok |-> TRUE, send_ok |-> TRUE, tick |-> 1]
      photo == [psid |-> "c1", text |-> T_empty, attachments |-> <<Image>>]
      db1 == delivered(NoRows, photo, env)
      db2 == delivered(db1, [photo EXCEPT !.text = T_details, !.attachments = << >>], env)
  IN delivered(db2, [photo EXCEPT !.text = T_cloud, !.attachments = << >>], env)

InitOwn ==
  /\ orders = QuoteSentTables.orders
  /\ conversation_state = QuoteSentTables.conversation_state
  /\ messages = QuoteSentTables.messages
  /\ turn = NoTurn
  /\ run = NoRun
  /\ drawn = NoDraw
  /\ quoting = NoQuoting
  /\ waiting = << >>
  /\ run2 = NoRun
  /\ own = NoOwn

SpecOwn == InitOwn /\ [][NextOwn]_vars

\* ============================================================== properties

\* A step of the webhook: the only operation that appends to the Message log.
TurnStep == messages' # messages

\* The attachments hold an image.
HasImage(attachments) == \E i \in 1..Len(attachments) : attachments[i].type = "image"

\* The text contains the word w, whatever the letter case.
Mentions(text, w) == includes(toUpperCase(text), w)

MentionsYes(text) ==
  Mentions(text, <<"Y", "E", "S">>) \/ Mentions(text, <<"C", "O", "N", "F", "I", "R", "M">>)
    \/ Mentions(text, <<"A", "P", "P", "R", "O", "V", "E">>)

MentionsNo(text) ==
  Mentions(text, <<"N", "O">>) \/ Mentions(text, <<"C", "A", "N", "C", "E", "L">>)

\* The rows of the orders table os with the given order_id.
RowsOf(os, orderId) == SelectSeq(os, LAMBDA r : r.order_id = orderId)

\* The sendText calls of a turn.
Sends(t) == SelectSeq(t.calls, LAMBDA c : c.fn = "sendText")

\* The turn sent exactly one reply, with this text.
SentOnly(t, reply) == Len(Sends(t)) = 1 /\ Sends(t)[1].arg = reply /\ Sends(t)[1].psid = t.psid

\* ---------------------------------------------------------------------- C1

\* A stage value that is none of the five.
CorruptStage == "ARCHIVED"

\* The tables with the customer's stored stage replaced by a corrupt one.
Corrupted(db, psid) ==
  setState(db, psid, CorruptStage, db.conversation_state[psid].pending_order_id)

\* C1: every stored stage is one of the five named stages; and were a stored
\* stage outside that set, handleIncoming would end, for every inbound event
\* of that customer, exactly as it ends from the state (NEW, no pending
\* order): same tables, same transport calls, same outcome.
C1_StageValid ==
  /\ \A p \in DOMAIN conversation_state : conversation_state[p].stage \in Stages
  /\ \A ev \in Inbound : \A env \in Envs(ev) :
       ev.psid \in DOMAIN conversation_state =>
         handleIncoming(Corrupted(Db, ev.psid), ev.psid,
                        [text |-> ev.text, attachments |-> ev.attachments], env)
           = handleIncoming(setState(Db, ev.psid, "NEW", << >>), ev.psid,
                            [text |-> ev.text, attachments |-> ev.attachments], env)

\* C1 witness: a customer has gone through the stages up to CONFIRMED with a
\* pending order, and from the corrupted form of that state a photo starts a
\* new order as it would from NEW.
C1_Witness ==
  \E p \in DOMAIN conversation_state :
    /\ conversation_state[p].stage = "CONFIRMED"
    /\ conversation_state[p].pending_order_id # << >>
    /\ \E env \in Envs([psid |-> p, text |-> T_empty, attachments |-> <<Image>>]) :
         LET h == handleIncoming(Corrupted(Db, p), p,
                                 [text |-> T_empty, attachments |-> <<Image>>], env)
         IN /\ ~h.threw
            /\ h.db.conversation_state[p].stage = "PHOTO_RECEIVED"
            /\ Len(h.db.orders) = Len(orders) + 1

\* ---------------------------------------------------------------------- C2

Edges ==
  { <<"NEW", "NEW">>, <<"NEW", "PHOTO_RECEIVED">>,
    <<"PHOTO_RECEIVED", "PHOTO_RECEIVED">>, <<"PHOTO_RECEIVED", "DETAILS_RECEIVED">>,
    <<"DETAILS_RECEIVED", "QUOTE_SENT">>,
    <<"QUOTE_SENT", "QUOTE_SENT">>, <<"QUOTE_SENT", "CONFIRMED">>, <<"QUOTE_SENT", "NEW">>,
    <<"CONFIRMED", "PHOTO_RECEIVED">>, <<"CONFIRMED", "NEW">> }

\* C2: every turn takes the customer's stage from the stage it read to the
\* stage it leaves along one of the ten listed edges.
C2_Edges ==
  [][TurnStep =>
       <<turn'.state.stage, conversation_state'[turn'.psid].stage>> \in Edges]_vars

\* ---------------------------------------------------------------------- C3

\* C3: a turn that reads stage NEW and whose message holds an image appends
\* exactly one Order, with status new and owned by the customer, leaves the
\* Orders that existed unchanged, sets the customer's state to
\* (PHOTO_RECEIVED, the new Order's ID) and sends one spec-request reply.
C3_PhotoCreatesOrder ==
  [][(TurnStep /\ turn'.state.stage = "NEW" /\ HasImage(turn'.attachments)) =>
       /\ Len(orders') = Len(orders) + 1
       /\ SubSeq(orders', 1, Len(orders)) = orders
       /\ orders'[Len(orders')].status = "new"
       /\ orders'[Len(orders')].psid = turn'.psid
       /\ conversation_state'[turn'.psid] =
            [stage |-> "PHOTO_RECEIVED", pending_order_id |-> orders'[Len(orders')].order_id]
       /\ SentOnly(turn', PhotoReply)]_vars

\* ---------------------------------------------------------------------- C4

\* The state of the customer of turn t in the conversation_state table cs.
StateAfter(cs, t) == cs[t.psid]

\* The turn read stage QUOTE_SENT.
AtQuoteSent(t) == t.state.stage = "QUOTE_SENT"

\* The pending Order of the turn ends with the given status, the customer is
\* back to (NEW, no pending order), and no Order row is added or removed.
CancelledBy(t, os, cs) ==
  /\ Len(RowsOf(os, t.state.pending_order_id)) = 1
  /\ RowsOf(os, t.state.pending_order_id)[1].status = "cancelled"
  /\ StateAfter(cs, t) = [stage |-> "NEW", pending_order_id |-> << >>]

\* C4 as stated: in QUOTE_SENT every text containing NO or CANCEL cancels
\* the pending Order, resets the stage to NEW and clears pending_order_id,
\* the Order row being kept.
C4_NoCancels ==
  [][(TurnStep /\ AtQuoteSent(turn') /\ MentionsNo(turn'.text)) =>
       (CancelledBy(turn', orders', conversation_state') /\ Len(orders') = Len(orders))]_vars

\* C4 amended: in QUOTE_SENT every text containing NO or CANCEL and none of
\* YES, CONFIRM, APPROVE cancels the pending Order, resets the stage to NEW
\* and clears pending_order_id, the Order row being kept.
C4_NoWithoutYesCancels ==
  [][(TurnStep /\ AtQuoteSent(turn') /\ MentionsNo(turn'.text) /\ ~MentionsYes(turn'.text)) =>
       (CancelledBy(turn', orders', conversation_state') /\ Len(orders') = Len(orders))]_vars

\* C4 witness: a quoted customer has answered "nah, no thanks" and the Order
\* is cancelled.
C4_Witness ==
  /\ AtQuoteSent(turn) /\ turn.text = T_no
  /\ CancelledBy(turn, orders, conversation_state)

\* ---------------------------------------------------------------------- C5

\* C5: in QUOTE_SENT every text containing YES, CONFIRM or APPROVE sets the
\* pending Order's status to confirmed and the stage to CONFIRMED, keeps
\* pending_order_id on that Order, and sends a reply that ends with the
\* Order's ID.
C5_YesConfirms ==
  [][(TurnStep /\ AtQuoteSent(turn') /\ MentionsYes(turn'.text)) =>
       /\ Len(RowsOf(orders', turn'.state.pending_order_id)) = 1
       /\ RowsOf(orders', turn'.state.pending_order_id)[1].status = "confirmed"
       /\ StateAfter(conversation_state', turn') =
            [stage |-> "CONFIRMED", pending_order_id |-> turn'.state.pending_order_id]
       /\ Len(Sends(turn')) = 1
       /\ LET reply == Sends(turn')[1].arg
              id == turn'.state.pending_order_id
          IN /\ Len(reply) > Len(id)
             /\ SubSeq(reply, Len(reply) - Len(id) + 1, Len(reply)) = id]_vars

\* C5 witness: a quoted customer has answered "yes" and is CONFIRMED.
C5_Witness ==
  /\ AtQuoteSent(turn) /\ turn.text = T_yes
  /\ StateAfter(conversation_state, turn).stage = "CONFIRMED"
  /\ RowsOf(orders, turn.state.pending_order_id)[1].status = "confirmed"

\* ---------------------------------------------------------------------- C6

\* C6: in QUOTE_SENT a text containing none of YES, CONFIRM, APPROVE, NO,
\* CANCEL only sends the re-prompt: the conversation states and the Orders
\* are left as they were.
C6_OtherReprompts ==
  [][(TurnStep /\ AtQuoteSent(turn') /\ ~MentionsYes(turn'.text) /\ ~MentionsNo(turn'.text)) =>
       /\ SentOnly(turn', YesNoReply)
       /\ conversation_state' = conversation_state
       /\ orders' = orders]_vars

\* C6 witness: a quoted customer has sent a text without any of the five
\* words, or an empty one, and is still in QUOTE_SENT.
C6_Witness ==
  /\ AtQuoteSent(turn) /\ turn.text \in {T_empty, T_cloud}
  /\ StateAfter(conversation_state, turn).stage = "QUOTE_SENT"
  /\ SentOnly(turn, YesNoReply)

\* ---------------------------------------------------------------------- C7

\* C7: every reply a turn sends is appended by that turn to the Message log
\* with direction out and the same text.
C7_RepliesLogged ==
  [][TurnStep =>
       \A i \in 1..Len(Sends(turn')) :
         \E j \in (Len(messages) + 1)..Len(messages') :
           messages'[j] = [psid |-> turn'.psid, direction |-> "out",
                           text |-> Sends(turn')[i].arg]]_vars

\* ---------------------------------------------------------------------- C8

\* The price columns of an Order row hold the quote q.
HoldsQuote(row, q) ==
  /\ row.base_price = q.basePrice
  /\ row.addons_price = q.addonsPrice
  /\ row.shipping = q.shipping
  /\ row.total = q.total
  /\ row.craftcloud_cost = q.craftcloudCost
  /\ row.margin = q.margin

\* C8: a turn that reads stage DETAILS_RECEIVED sets the pending Order's
\* fulfillment mode to CLOUD when the text contains CLOUD in any letter case
\* and to SELF otherwise, persists on the Order the quote computed for its
\* stored size and material with that mode, moves the stage to QUOTE_SENT
\* with the same pending_order_id, and sends a proposal containing "Total:".
C8_DetailsQuoted ==
  [][(TurnStep /\ turn'.state.stage = "DETAILS_RECEIVED") =>
       LET id == turn'.state.pending_order_id
           mode == IF Mentions(turn'.text, <<"C", "L", "O", "U", "D">>) THEN CLOUD ELSE SELF
       IN /\ Len(RowsOf(orders, id)) = 1
          /\ Len(RowsOf(orders', id)) = 1
          /\ RowsOf(orders', id)[1].fulfillment_type = mode
          /\ HoldsQuote(RowsOf(orders', id)[1],
                        calculateQuote(RowsOf(orders, id)[1].size,
                                       RowsOf(orders, id)[1].material, mode,
                                       RowsOf(orders, id)[1].rush # 0,
                                       RowsOf(orders, id)[1].cad_design # 0))
          /\ StateAfter(conversation_state', turn') =
               [stage |-> "QUOTE_SENT", pending_order_id |-> id]
          /\ Len(Sends(turn')) = 1
          /\ includes(Sends(turn')[1].arg, <<"T", "o", "t", "a", "l", ":">>)]_vars

\* C8 witness: a customer whose details are stored has answered "I'll do
\* cloud printing"; the Order is CLOUD and priced, the stage is QUOTE_SENT.
C8_Witness ==
  /\ turn.state.stage = "DETAILS_RECEIVED" /\ turn.text = T_cloud
  /\ StateAfter(conversation_state, turn).stage = "QUOTE_SENT"
  /\ RowsOf(orders, turn.state.pending_order_id)[1].fulfillment_type = CLOUD
  /\ RowsOf(orders, turn.state.pending_order_id)[1].total > 0

\* ---------------------------------------------------------------------- C9

\* C9: a turn that reads stage PHOTO_RECEIVED with a non-empty text stores
\* the parsed material, color and size on the pending Order and moves the
\* stage to DETAILS_RECEIVED with the same pending_order_id; with an empty
\* text it only sends the re-prompt and leaves the conversation states and
\* the Orders as they were.
C9_DetailsStored ==
  [][(TurnStep /\ turn'.state.stage = "PHOTO_RECEIVED") =>
       LET id == turn'.state.pending_order_id
           text == trim(turn'.text)
       IN IF text # << >>
            THEN /\ Len(RowsOf(orders', id)) = 1
                 /\ RowsOf(orders', id)[1].material = parseDetails(text).material
                 /\ RowsOf(orders', id)[1].color = parseDetails(text).color
                 /\ RowsOf(orders', id)[1].size = parseDetails(text).size
                 /\ StateAfter(conversation_state', turn') =
                      [stage |-> "DETAILS_RECEIVED", pending_order_id |-> id]
            ELSE /\ SentOnly(turn', ResendReply)
                 /\ conversation_state' = conversation_state
                 /\ orders' = orders]_vars

\* C9 witness: a customer whose photo was received has sent "PETG, red,
\* small", now stored on the pending Order.
C9_Witness ==
  /\ turn.state.stage = "PHOTO_RECEIVED" /\ turn.text = T_details
  /\ StateAfter(conversation_state, turn).stage = "DETAILS_RECEIVED"
  /\ RowsOf(orders, turn.state.pending_order_id)[1].material = PETG
  /\ RowsOf(orders, turn.state.pending_order_id)[1].color = <<"r", "e", "d">>
  /\ RowsOf(orders, turn.state.pending_order_id)[1].size = small

\* --------------------------------------------------------------------- C10

\* C10: a turn that reads stage CONFIRMED appends, when the message holds an
\* image, one Order with status new for the same customer, sets the state to
\* (PHOTO_RECEIVED, the new Order's ID) and leaves the earlier Orders
\* unchanged; without an image it sets the state to (NEW, no pending order)
\* and changes no Order.  No conversation state row is added.
C10_ConfirmedReenters ==
  [][(TurnStep /\ turn'.state.stage = "CONFIRMED") =>
       /\ DOMAIN conversation_state' = DOMAIN conversation_state
       /\ IF HasImage(turn'.attachments)
            THEN /\ Len(orders') = Len(orders) + 1
                 /\ SubSeq(orders', 1, Len(orders)) = orders
                 /\ orders'[Len(orders')].status = "new"
                 /\ orders'[Len(orders')].psid = turn'.psid
                 /\ StateAfter(conversation_state', turn') =
                      [stage |-> "PHOTO_RECEIVED",
                       pending_order_id |-> orders'[Len(orders')].order_id]
            ELSE /\ StateAfter(conversation_state', turn') =
                      [stage |-> "NEW", pending_order_id |-> << >>]
                 /\ orders' = orders]_vars

\* --------------------------------------------------------------------- C11

\* The h a delivery of ev ends with from the current tables, under env.
TurnOf(ev, env) ==
  handleIncoming(saveMessage(Db, ev.psid, "in", inboundLogText(ev.text, ev.attachments)),
                 ev.psid, [text |-> ev.text, attachments |-> ev.attachments], env)

\* The stage the customer's next turn will read.
StageOf(psid) == getState(Db, psid).stage

\* C11: a transport failure never aborts a turn.  From every reachable state
\* and for every inbound event, the turn with a failing sendText returns as
\* the turn with a succeeding one does and leaves the same Orders and
\* conversation states; and a photo turn (stage NEW or CONFIRMED) whose
\* download fails returns, appends the Order with an empty photo reference
\* and sets the stage to PHOTO_RECEIVED.
C11_TransportFailureHarmless ==
  \A ev \in Inbound : \A env \in Envs(ev) :
    LET hT == TurnOf(ev, [env EXCEPT !.send_ok = TRUE])
        hF == TurnOf(ev, [env EXCEPT !.send_ok = FALSE])
    IN /\ hF.threw = hT.threw
       /\ hF.db.orders = hT.db.orders
       /\ hF.db.conversation_state = hT.db.conversation_state
       /\ (HasImage(ev.attachments) /\ StageOf(ev.psid) \in {"NEW", "CONFIRMED"} /\ ~env.dl_ok) =>
            LET h == TurnOf(ev, env)
            IN /\ ~h.threw
               /\ h.db.orders = Append(orders, newOrderRow(env.orderId, ev.psid, << >>, clock(Db, env.tick)))
               /\ h.db.conversation_state[ev.psid] =
                    [stage |-> "PHOTO_RECEIVED", pending_order_id |-> env.orderId]

\* --------------------------------------------------------------------- C12

\* C12: whenever a customer's pending_order_id is non-empty, the lookup of
\* the customer's most recent non-cancelled Order returns an Order, and every
\* Order it can return is the one pending_order_id names.
C12_LookupsAgree ==
  \A p \in DOMAIN conversation_state :
    conversation_state[p].pending_order_id # << >> =>
      /\ getOrderByPsid(Db, p) # {}
      /\ \A row \in getOrderByPsid(Db, p) :
           row.order_id = conversation_state[p].pending_order_id

\* --------------------------------------------------------------------- C13

\* A pipeline run has started.
Started == run.pc # "idle"

\* The Order row the run read at its start.
OrderAtStart == run.order[1]

\* The invocations of Model Generation by the run, and its attempts.
GenerationCalls == SelectSeq(run.calls, LAMBDA c : c.fn \in {"processImage", "runToolTrace"})

Attempts == SelectSeq(run.calls, LAMBDA c : c.fn = "runToolTrace")

\* C13: a run on an Order whose stl_path is non-empty at its start never
\* invokes Model Generation, whatever the Order's photo reference, status
\* and fulfillment mode; every one of successive runs on such an Order
\* therefore invokes it zero times.
C13_ModelNotRegenerated ==
  (Started /\ OrderAtStart.stl_path # << >>) => GenerationCalls = << >>

\* C13 witness: a run has returned on an Order that had a photo and a model
\* file from an earlier run, and was already in-progress.
C13_Witness ==
  /\ run.pc = "done"
  /\ OrderAtStart.stl_path # << >>
  /\ OrderAtStart.photo_path # << >>
  /\ OrderAtStart.status = "in-progress"
  /\ GenerationCalls = << >>

\* --------------------------------------------------------------------- C14

\* Model Generation has succeeded in the run.
GeneratedInRun == Started /\ OrderAtStart.stl_path = << >> /\ run.stlPath # << >>

\* The invocations of the vendor service by the run.
VendorCalls == SelectSeq(run.calls, LAMBDA c : c.fn \in {"uploadAndQuote", "placeOrder"})

\* The statuses the run has tried to write, and those it has written.
StatusTried == {run.writes[i].fields.status :
                  i \in {j \in 1..Len(run.writes) : "status" \in DOMAIN run.writes[j].fields}}

StatusWritten == {run.writes[i].fields.status :
                    i \in {j \in 1..Len(run.writes) :
                             "status" \in DOMAIN run.writes[j].fields /\ run.writes[j].ok}}

\* The fulfillment branch of the run has started: the vendor was called or
\* the in-progress write of the SELF branch was made.
FulfillmentStarted == VendorCalls # << >> \/ "in-progress" \in StatusTried

\* The run has returned a failure.
Failed == run.pc = "done" /\ ~run.result[1].success

\* The Order row of the run, as it is now.
OrderNow == RowsOf(orders, run.orderId)[1]

\* A step that starts a run after one has returned.
NewRun == run.pc = "done" /\ run' # run

\* C14: once Model Generation has succeeded in a run and the fulfillment
\* branch has started, the Order holds the generated model-file reference,
\* and keeps it when the run then fails; and a run that follows on the same
\* Order reads that reference and starts without invoking Model Generation.
C14_ModelPersistedFirst ==
  /\ []((GeneratedInRun /\ FulfillmentStarted) => OrderNow.stl_path = run.stlPath)
  /\ [][(NewRun /\ GeneratedInRun /\ FulfillmentStarted /\ run'.orderId = run.orderId) =>
          /\ run'.order[1].stl_path = run.stlPath
          /\ SelectSeq(run'.calls, LAMBDA c : c.fn \in {"processImage", "runToolTrace"}) = << >>]_vars

\* C14 witness: a run generated the model, called the vendor for a quote,
\* and failed there; the Order holds the model-file reference.
C14_Witness ==
  /\ Failed /\ GeneratedInRun
  /\ VendorCalls # << >>
  /\ run.result[1].error \in {vendorError("poll"), <<"No Craftcloud quotes returned">>}
  /\ OrderNow.stl_path = stlPathIn(UPLOADS_DIR)
  /\ OrderNow.status = "error"

\* --------------------------------------------------------------------- C15

\* The run is on an Order that was CLOUD at its start.
CloudAtStart == Started /\ toUpperCase(OrderAtStart.fulfillment_type) = CLOUD

QuoteCalls == SelectSeq(run.calls, LAMBDA c : c.fn = "uploadAndQuote")

PlaceCalls == SelectSeq(run.calls, LAMBDA c : c.fn = "placeOrder")

\* C15: a run on a CLOUD Order that held a vendor quote reference at its
\* start does not invoke the vendor quoting step, and when the Order was
\* moreover in-progress, its vendor order placed, the run does not invoke
\* the placement either.
C15_VendorStepsNotRedone ==
  (CloudAtStart /\ OrderAtStart.craftcloud_quote_id # << >>) =>
    /\ QuoteCalls = << >>
    /\ OrderAtStart.status = "in-progress" => PlaceCalls = << >>

\* --------------------------------------------------------------------- C16

\* A step at which the run returns, and the Order row of the run after it.
ReturnStep == run' # run /\ run'.pc = "done"

OrderAfter == RowsOf(orders', run'.orderId)[1]

\* Both attempts of the run r have failed.
BothFailed(r) == Len(r.outcomes) = 2 /\ ~r.outcomes[1].ok /\ ~r.outcomes[2].ok

\* C16: a run makes at most 2 attempts at Model Generation, each attempt
\* after the first follows a failed one, and none follows a success; the run
\* whose two attempts have failed returns success=false with an error that
\* contains the message of the second failure, has written no model-file
\* reference, and leaves the Order with status error.
C16_TwoAttempts ==
  /\ [](Started =>
          /\ Len(Attempts) <= 2
          /\ Len(run.outcomes) <= Len(Attempts)
          /\ \A i \in 1..Len(run.outcomes) :
               IF run.outcomes[i].ok THEN Len(Attempts) = i ELSE TRUE
          /\ \A i \in 2..Len(Attempts) : ~run.outcomes[i - 1].ok
          /\ BothFailed(run) =>
               /\ Failed
               /\ includes(run.result[1].error, run.outcomes[2].error)
               /\ run.result[1].error # << >>
               /\ \A j \in 1..Len(run.writes) : "stl_path" \notin DOMAIN run.writes[j].fields
               /\ OrderNow.stl_path = << >>)
  /\ [][(ReturnStep /\ BothFailed(run')) => OrderAfter.status = "error"]_vars

\* C16 witness: a run has returned after a first attempt that failed with an
\* empty message and a second that timed out, and the Order is in error with
\* the timeout in the error of the result.
C16_Witness ==
  /\ Failed /\ BothFailed(run)
  /\ run.outcomes[1].error = << >>
  /\ run.outcomes[2].error = <<"Timeout 60000ms exceeded.">>
  /\ run.result[1].error = <<"ToolTrace failed: ", "Timeout 60000ms exceeded.">>
  /\ OrderNow.status = "error"
  /\ OrderNow.stl_path = << >>

\* --------------------------------------------------------------------- C17

\* The run has returned on an Order that was CLOUD at its start and had, or
\* got in this run, a model file.
CloudRunDone == run.pc = "done" /\ CloudAtStart /\ run.stlPath # << >>

\* The run has written the cost and the reference of the quote q.
QuotePersisted(q) ==
  \E j \in 1..Len(run.writes) :
    /\ run.writes[j].ok
    /\ run.writes[j].fields = [craftcloud_cost |-> q.totalPrice, craftcloud_quote_id |-> q.quoteId]

\* C17: a run on a CLOUD Order with a model file, in a process without
\* CRAFTCLOUD_API_KEY, calls the vendor quoting step and, when the vendor
\* answers with a quote, persists cost and quote reference, places no vendor
\* order, writes no status and returns success=true with the summary of the
\* quote; and a run that has obtained a quote has called placeOrder exactly
\* when the key is set.
C17_QuoteWithoutKey ==
  /\ (CloudRunDone /\ ~run.key) =>
       /\ QuoteCalls # << >>
       /\ PlaceCalls = << >>
       /\ StatusTried = {}
       /\ run.result[1].error # KeyError
       /\ run.best # << >> =>
            /\ QuotePersisted(run.best[1])
            /\ run.result[1].success
            /\ run.result[1].craftcloudQuote = quoteSummary(run.best[1])
  /\ (CloudRunDone /\ run.best # << >>) => (PlaceCalls # << >> <=> run.key)

\* --------------------------------------------------------------------- C18

\* placeOrder has thrown in the run r.
PlacementFailed(r) == r.placed = <<FALSE>>

\* C18: a run in which placeOrder has thrown returns success=true with the
\* id, total price, vendor id and lead time of the quote it chose, has
\* persisted the cost and the reference of that quote, which are on the
\* Order when it returns, and has written no status; and a run on a CLOUD
\* Order writes in-progress only after placeOrder has returned.
C18_PlacementFailureTolerated ==
  /\ []((run.pc = "done" /\ PlacementFailed(run)) =>
          /\ run.result[1].success
          /\ run.result[1].error = null
          /\ run.result[1].craftcloudQuote =
               <<[quoteId |-> run.best[1].quoteId, totalPrice |-> run.best[1].totalPrice,
                  vendorId |-> run.best[1].vendorId, leadDays |-> run.best[1].leadDays]>>
          /\ QuotePersisted(run.best[1])
          /\ StatusTried = {})
  /\ [](CloudAtStart /\ "in-progress" \in StatusTried => run.placed = <<TRUE>>)
  /\ [][(ReturnStep /\ PlacementFailed(run')) =>
          /\ OrderAfter.craftcloud_cost = run'.best[1].totalPrice
          /\ OrderAfter.craftcloud_quote_id = run'.best[1].quoteId
          /\ OrderAfter.status = RowsOf(orders, run.orderId)[1].status]_vars

\* C18 witness: a run has returned after a placement that failed; the
\* cheapest quote q-a is on the Order, whose status is still confirmed.
C18_Witness ==
  /\ run.pc = "done" /\ PlacementFailed(run)
  /\ run.result[1].success
  /\ OrderNow.craftcloud_quote_id = <<"q-a">>
  /\ OrderNow.craftcloud_cost = 3500
  /\ OrderNow.status = "confirmed"

\* --------------------------------------------------------------------- C19

\* A step of the run has failed: the photo was missing, Model Generation was
\* invoked and gave no model file, the vendor quoting step was invoked and
\* gave no quote, or a write other than that of status error failed.
StepFailed ==
  \/ OrderAtStart.stl_path = << >> /\ OrderAtStart.photo_path = << >>
  \/ GenerationCalls # << >> /\ run.stlPath = << >>
  \/ QuoteCalls # << >> /\ run.best = << >>
  \/ \E j \in 1..Len(run.writes) :
       ~run.writes[j].ok /\ run.writes[j].fields # [status |-> "error"]

\* The result of a failed run: success=false, stlPath and craftcloudQuote
\* null, a non-empty error.
FailureResult(result) ==
  /\ ~result.success
  /\ result.stlPath = null
  /\ result.craftcloudQuote = << >>
  /\ result.error # null /\ result.error # << >>

\* C19: every run that has ended has returned a result; when a step of it
\* failed the result is the failure result and the run has tried to write
\* status error, which is the Order's status on return unless that write
\* failed; and a run on an Order that does not exist returns the failure
\* result and changes no Order.
C19_FailuresReported ==
  /\ [](run.pc = "done" => Len(run.result) = 1)
  /\ []((run.pc = "done" /\ StepFailed) =>
          /\ FailureResult(run.result[1])
          /\ "error" \in StatusTried)
  /\ [](\A orderId \in OrderIds : \A key, exists \in BOOLEAN : \A dbok \in DbOutcomes(2) :
          getOrder(Db, orderId) = << >> =>
            LET p == runOrderPipeline(Db, orderId, key, exists, dbok)
            IN /\ p.run.pc = "done"
               /\ FailureResult(p.run.result[1])
               /\ p.db.orders = orders)
  /\ [][(ReturnStep /\ ~run'.result[1].success /\ "error" \in
            {run'.writes[i].fields.status :
               i \in {j \in 1..Len(run'.writes) :
                        "status" \in DOMAIN run'.writes[j].fields /\ run'.writes[j].ok}}) =>
          OrderAfter.status = "error"]_vars

\* --------------------------------------------------------------------- C20

\* Fulfillment modes that no conversation stores: SELF in other letter
\* cases, and a value that is neither SELF nor CLOUD.
OtherModes ==
  {<<"s", "e", "l", "f">>, <<"S", "e", "l", "f">>, <<"P", "I", "C", "K", "U", "P">>}

\* The run r, on tables db, has ended as a SELF run on the model file
\* stlPath: it called neither Model Generation nor the vendor, its one write
\* set the status, which is in-progress, and it returned success with the
\* model file and no quote.
SelfRun(db, r, stlPath) ==
  /\ r.pc = "done"
  /\ SelectSeq(r.calls, LAMBDA c : c.fn \in {"uploadAndQuote", "placeOrder"}) = << >>
  /\ \A j \in 1..Len(r.writes) :
       DOMAIN r.writes[j].fields \cap {"craftcloud_cost", "craftcloud_quote_id"} = {}
  /\ \E j \in 1..Len(r.writes) : r.writes[j] = [fields |-> [status |-> "in-progress"], ok |-> TRUE]
  /\ r.result = <<[success |-> TRUE, orderId |-> r.orderId, stlPath |-> stlPath,
                   craftcloudQuote |-> << >>, error |-> null]>>
  /\ stlPath # << >>
  /\ RowsOf(db.orders, r.orderId)[1].stl_path = stlPath

\* C20: a run on an Order with a model file whose fulfillment mode is not
\* CLOUD in any letter case (SELF, unset, or another value) calls no vendor
\* service, writes no vendor cost or quote reference, sets the status to
\* in-progress and returns success=true with the model-file reference and a
\* null quote; on return the Order is in-progress with its vendor fields as
\* they were.
C20_SelfFulfillment ==
  /\ []((run.pc = "done" /\ ~CloudAtStart /\ run.stlPath # << >>) =>
          SelfRun(Db, run, run.stlPath))
  /\ [](\A i \in 1..Len(orders) : \A mode \in OtherModes : \A key, exists \in BOOLEAN :
          orders[i].stl_path # << >> =>
            LET p == runOrderPipeline(
                       updateOrder(Db, orders[i].order_id, [fulfillment_type |-> mode]),
                       orders[i].order_id, key, exists, AllOk(2))
            IN /\ SelfRun(p.db, p.run, orders[i].stl_path)
               /\ RowsOf(p.db.orders, orders[i].order_id)[1].status = "in-progress")
  /\ [][(ReturnStep /\ toUpperCase(run'.order[1].fulfillment_type) # CLOUD
           /\ run'.stlPath # << >>) =>
          /\ OrderAfter.status = "in-progress"
          /\ OrderAfter.craftcloud_cost = RowsOf(orders, run'.orderId)[1].craftcloud_cost
          /\ OrderAfter.craftcloud_quote_id = RowsOf(orders, run'.orderId)[1].craftcloud_quote_id]_vars

\* C20 witness: a run has returned on a confirmed SELF Order that had its
\* model file; the Order is in-progress.
C20_Witness ==
  /\ run.pc = "done" /\ run.result[1].success
  /\ OrderAtStart.fulfillment_type = SELF
  /\ OrderAtStart.stl_path # << >>
  /\ OrderAtStart.status = "confirmed"
  /\ OrderNow.status = "in-progress"
  /\ VendorCalls = << >>

\* --------------------------------------------------------------------- C21

\* The Order the run read at its start has neither a model file nor a photo.
NothingToGenerate(r) == r.order[1].stl_path = << >> /\ r.order[1].photo_path = << >>

MissingPhoto == <<"Order has no photo - cannot generate STL">>

\* C21: a run on an Order with neither a model-file reference nor a photo
\* reference has returned as soon as it has started, with success=false and
\* the missing-photo error, without a call of Model Generation or of the
\* vendor; its one write is that of status error, which is the Order's
\* status on return.
C21_MissingPhotoFails ==
  /\ []((Started /\ NothingToGenerate(run)) =>
          /\ run.pc = "done"
          /\ run.result = <<[success |-> FALSE, orderId |-> run.orderId, stlPath |-> null,
                             craftcloudQuote |-> << >>, error |-> MissingPhoto]>>
          /\ GenerationCalls = << >>
          /\ VendorCalls = << >>
          /\ run.writes = <<[fields |-> [status |-> "error"], ok |-> TRUE]>>)
  /\ [][(ReturnStep /\ NothingToGenerate(run')) => OrderAfter.status = "error"]_vars

\* C21 witness: a run has returned on a confirmed Order whose photo download
\* had failed; the Order is in error and the result carries the
\* missing-photo error.
C21_Witness ==
  /\ Failed /\ NothingToGenerate(run)
  /\ OrderAtStart.status = "confirmed"
  /\ run.calls = << >>
  /\ run.result[1].error = MissingPhoto
  /\ OrderNow.status = "error"

\* --------------------------------------------------------------------- C22

\* The total of the quote q under the shipping list: its model price plus
\* the shipping price of its vendor, 0 when the vendor has no entry.
TotalOf(q, shippings) ==
  IF \E i \in 1..Len(shippings) : shippings[i].vendorId = q.vendorId
    THEN q.price + shippings[CHOOSE i \in 1..Len(shippings) :
                               /\ shippings[i].vendorId = q.vendorId
                               /\ \A j \in 1..(i - 1) : shippings[j].vendorId # q.vendorId].price
    ELSE q.price

\* The permutations of the sequence qs.
PermutationsOf(qs) ==
  {[i \in 1..Len(qs) |-> qs[f[i]]] :
     f \in {g \in [1..Len(qs) -> 1..Len(qs)] : \A i, j \in 1..Len(qs) : i # j => g[i] # g[j]}}

\* The quoting step of the run has returned.
Quoted == run.pc \in {"place", "done"}

\* C22: when the quoting step has returned on a non-empty list of vendor
\* quotes, the best quote the run holds is a quote of the list, its
\* totalPrice is its model price plus its vendor's shipping price and is the
\* minimum of the totals of the list, it is the vendor cost written on the
\* Order, and the quoting step returns a best quote of that totalPrice on
\* every permutation of the list; on an empty list there is no best quote
\* and the run has failed with the no-quote error.
C22_CheapestQuote ==
  Quoted =>
    IF drawn.quotes # << >>
      THEN /\ Len(run.best) = 1
           /\ \E i \in 1..Len(drawn.quotes) :
                /\ drawn.quotes[i].quoteId = run.best[1].quoteId
                /\ TotalOf(drawn.quotes[i], drawn.shippings) = run.best[1].totalPrice
           /\ \A i \in 1..Len(drawn.quotes) :
                run.best[1].totalPrice <= TotalOf(drawn.quotes[i], drawn.shippings)
           /\ \E j \in 1..Len(run.writes) :
                run.writes[j] = [fields |-> [craftcloud_cost |-> run.best[1].totalPrice,
                                             craftcloud_quote_id |-> run.best[1].quoteId],
                                 ok |-> TRUE]
           /\ OrderNow.craftcloud_cost = run.best[1].totalPrice
           /\ \A qs \in PermutationsOf(drawn.quotes) :
                LET quoteResult == uploadAndQuote(run.key, [drawn EXCEPT !.quotes = qs])
                IN /\ ~quoteResult.threw
                   /\ Len(quoteResult.bestQuote) = 1
                   /\ quoteResult.bestQuote[1].totalPrice = run.best[1].totalPrice
      ELSE /\ run.best = << >>
           /\ Failed
           /\ run.result[1].error = <<"No Craftcloud quotes returned">>

\* C22 witness: the vendor has answered with the totals 3500, 3700 and 2800
\* in that order, and the run holds the third quote.
C22_Witness ==
  /\ Quoted
  /\ drawn.quotes = <<qA, qB, qC>> /\ drawn.shippings = <<sA, sB>>
  /\ run.best[1].quoteId = qC.quoteId
  /\ run.best[1].totalPrice = 2800

\* --------------------------------------------------------------------- C23

\* The Orders of os with the status of the Orders named orderId set.
WithStatus(os, orderId, status) ==
  [i \in 1..Len(os) |-> IF os[i].order_id = orderId THEN [os[i] EXCEPT !.status = status]
                        ELSE os[i]]

Runs(text) ==
  {r \in (1..Len(text)) \X (1..Len(text)) :
     /\ r[1] <= r[2]
     /\ \A k \in r[1]..r[2] : text[k] \notin Separators
     /\ r[1] = 1 \/ text[r[1] - 1] \in Separators
     /\ r[2] = Len(text) \/ text[r[2] + 1] \in Separators}

\* The runs that are longer than one character and are no stop word.
Surviving(text) ==
  {r \in Runs(text) : r[2] > r[1] /\ toLowerCase(SubSeq(text, r[1], r[2])) \notin knownWords}

\* The runs of the set rs in the order of the text, with a space between.
RECURSIVE Joined(_, _)
Joined(text, rs) ==
  IF rs = {} THEN << >>
  ELSE LET r == CHOOSE q \in rs : \A o \in rs : q[1] <= o[1]
       IN IF rs = {r} THEN SubSeq(text, r[1], r[2])
          ELSE SubSeq(text, r[1], r[2]) \o <<" ">> \o Joined(text, rs \ {r})

\* C24: parseDetails returns on every text; the material is PETG when the
\* text holds petg in any letter case, else PLA+ when it holds pla+, else
\* PLA; the size is full drawer when it holds full or drawer, else small,
\* else medium, else full drawer for large, else medium; the color is not
\* empty: it is the words longer than one character that are no stop word,
\* in their order with a space between, or black when there is none; and
\* "PETG, red, small" gives PETG, red, small.
C24_ParseDetailsTotal ==
  drawn.parsed # << >> =>
    LET lower == toLowerCase(drawn.text)
        has(w) == includes(lower, w)
        parsed == drawn.parsed[1]
    IN /\ Len(drawn.parsed) = 1
       /\ parsed.material \in {PLA, PLAplus, PETG}
       /\ parsed.material =
            IF has(<<"p", "e", "t", "g">>) THEN PETG
            ELSE IF has(<<"p", "l", "a", "+">>) THEN PLAplus ELSE PLA
       /\ parsed.size \in {small, medium, fullDrawer}
       /\ parsed.size =
            IF has(<<"f", "u", "l", "l">>) \/ has(<<"d", "r", "a", "w", "e", "r">>) THEN fullDrawer
            ELSE IF has(small) THEN small
            ELSE IF has(medium) THEN medium
            ELSE IF has(<<"l", "a", "r", "g", "e">>) THEN fullDrawer ELSE medium
       /\ parsed.color # << >>
       /\ parsed.color = IF Surviving(drawn.text) = {} THEN black
                         ELSE Joined(drawn.text, Surviving(drawn.text))
       /\ drawn.text = T_details =>
            parsed = [material |-> PETG, color |-> <<"r", "e", "d">>, size |-> small]

\* C24 witness: "PETG, red, small" has been parsed to PETG, red, small.
C24_Witness ==
  /\ drawn.text = T_details
  /\ drawn.parsed = <<[material |-> PETG, color |-> <<"r", "e", "d">>, size |-> small]>>

\* --------------------------------------------------------------------- C25

\* C25: a run on an Order whose status was not confirmed at its start
\* writes neither status in-progress nor a model-file reference nor a vendor
\* cost or quote reference.
C25_OnlyConfirmedAdvanced ==
  (Started /\ OrderAtStart.status # "confirmed") =>
    \A j \in 1..Len(run.writes) :
      /\ DOMAIN run.writes[j].fields \cap {"stl_path", "craftcloud_cost", "craftcloud_quote_id"} = {}
      /\ run.writes[j].fields # [status |-> "in-progress"]

\* --------------------------------------------------------------------- C26

\* The error a run ends with when its call of the vendor quoting step ended
\* with the error message.
QuotingFailedWith(r, message) ==
  /\ r.pc = "done" /\ ~r.result[1].success
  /\ r.result[1].error = message
  /\ r.best = << >>

\* C26: every run that has started returns a result in the end.  On the
\* way it makes at most 2 attempts at Model Generation and at most one call
\* of the vendor quoting step; each polling loop of that step is in one of
\* its 30 iterations, the end of the quoting step without a quote ends the
\* run in the same step with success=false, and the thirtieth poll of
\* either loop ends the loop: with the next request, or with the failure of
\* the run, which is the timeout of the loop unless that poll itself failed.
C26_RunsReturn ==
  /\ (run.pc \notin {"idle", "done"}) ~> (run.pc = "done" /\ Len(run.result) = 1)
  /\ [](/\ Len(Attempts) <= 2
        /\ Len(QuoteCalls) <= 1
        /\ quoting.step = "parse" => quoting.i < 30
        /\ quoting.step = "poll" => quoting.i < 30)
  /\ [][(run.pc = "quote" /\ run' # run /\ run'.best = << >>) =>
          (run'.pc = "done" /\ ~run'.result[1].success)]_vars
  /\ [][(quoting.step = "parse" /\ quoting.i = 29 /\ quoting' # quoting) =>
          \/ quoting'.step = "price" /\ run' = run
          \/ QuotingFailedWith(run', <<"Model parsing timed out">>)
          \/ QuotingFailedWith(run', vendorError("upload"))]_vars
  /\ [][(quoting.step = "poll" /\ quoting.i = 29 /\ quoting' # quoting) =>
          \/ run'.best # << >>
          \/ QuotingFailedWith(run', <<"Quote polling timed out">>)
          \/ QuotingFailedWith(run', <<"No Craftcloud quotes returned">>)
          \/ QuotingFailedWith(run', vendorError("upload"))]_vars

\* C26 witness: a run has failed with the timeout of the quote polling
\* after a model generated at the second attempt.
C26_Witness ==
  /\ QuotingFailedWith(run, <<"Quote polling timed out">>)
  /\ Len(Attempts) = 2
  /\ Len(QuoteCalls) = 1

\* --------------------------------------------------------------------- C27

\* The events of the batch that have a sender and are no echo, in batch
\* order.
Eligible(batch) ==
  SelectSeq([i \in 1..Len(batch) |-> i],
            LAMBDA i : batch[i].psid # "" /\ ~batch[i].is_echo)

\* C27: when a delivery has ended, the events it has taken up are the
\* events of the batch that have a sender and are no echo, in batch order,
\* also when the handling of one of them failed; and the inbound rows of the
\* Message log are the rows of these events in that order (without the one
\* whose row the record store refused), the first row being an inbound one.
C27_BatchHandledInOrder ==
  drawn.done =>
    LET saved == SelectSeq(Eligible(drawn.batch), LAMBDA i : i # drawn.failAt)
    IN /\ drawn.handled = Eligible(drawn.batch)
       /\ SelectSeq(messages, LAMBDA m : m.direction = "in") =
            [k \in 1..Len(saved) |->
               [psid |-> drawn.batch[saved[k]].psid, direction |-> "in",
                text |-> inboundLogText(drawn.batch[saved[k]].text,
                                        drawn.batch[saved[k]].attachments)]]
       /\ messages # << >> => messages[1].direction = "in"

\* --------------------------------------------------------------------- C28

\* C28: for every customer with a conversation state, pending_order_id is
\* empty exactly when the stage is NEW, and in every other stage it is the
\* ID of an Order of that customer.
C28_PendingOrderMatchesStage ==
  \A p \in DOMAIN conversation_state :
    /\ conversation_state[p].pending_order_id = << >> <=> conversation_state[p].stage = "NEW"
    /\ conversation_state[p].stage \in Stages \ {"NEW"} =>
         \E i \in 1..Len(orders) :
           /\ orders[i].order_id = conversation_state[p].pending_order_id
           /\ orders[i].psid = p

\* C28 witness: a customer with a confirmed Order has sent a new photo, and
\* the pending order is the second Order.
C28_Witness ==
  /\ Len(orders) = 2
  /\ orders[1].status = "confirmed"
  /\ conversation_state["c1"] = [stage |-> "PHOTO_RECEIVED", pending_order_id |-> orders[2].order_id]
  /\ ~turn.threw /\ turn.state.stage = "CONFIRMED"

\* --------------------------------------------------------------------- C29

\* The Orders of the customer that have status new.
NewOrdersOf(psid) == {i \in 1..Len(orders) : orders[i].psid = psid /\ orders[i].status = "new"}

\* C29: every Order of a customer that has status new is the one the
\* customer's pending_order_id names, and a customer has at most one such
\* Order, also while deliveries for the customer overlap.
C29_NoOrphanedOrder ==
  \A psid \in Customers :
    /\ \A i \in NewOrdersOf(psid) : orders[i].order_id = getState(Db, psid).pending_order_id
    /\ Cardinality(NewOrdersOf(psid)) <= 1

\* --------------------------------------------------------------------- C30

\* The run r has started and has not returned.
InFlight(r) == r.pc \notin {"idle", "done"}

\* The Order the run r read at its start had a photo and no model file.
ToGenerate(r) == r.order[1].photo_path # << >> /\ r.order[1].stl_path = << >>

\* The run r has invoked Model Generation.
Generates(r) == \E i \in 1..Len(r.calls) : r.calls[i].fn \in {"processImage", "runToolTrace"}

\* C30: while two runs on the same Order are both in flight, each started
\* on the Order with a photo and no model file, at most one of them has
\* invoked Model Generation.
C30_GeneratedByOneRun ==
  (/\ InFlight(run) /\ InFlight(run2)
   /\ run.orderId = run2.orderId
   /\ ToGenerate(run) /\ ToGenerate(run2)) =>
    ~(Generates(run) /\ Generates(run2))

\* --------------------------------------------------------------------- C31

\* C31: a run that returns success=true leaves the Order, at that return,
\* with a status other than error, also when the Order had status error
\* from an earlier run that failed.
C31_SuccessNotError ==
  [][(ReturnStep /\ run'.result[1].success) => OrderAfter.status # "error"]_vars

\* --------------------------------------------------------------------- C32

\* The Order has fulfillment mode CLOUD and its quote has been computed:
\* handleDetailsReceived has stored the price fields, of which the base
\* price of a CLOUD quote is never zero.
CloudQuoted(o) == toUpperCase(o.fulfillment_type) = CLOUD /\ o.base_price # 0

\* C32: in every state, every CLOUD Order whose quote has been computed has
\* margin = total - craftcloud_cost and total = base price + add-ons +
\* shipping, also after a run has stored the cost of the vendor's quote.
C32_MarginConsistent ==
  \A i \in 1..Len(orders) :
    CloudQuoted(orders[i]) =>
      /\ orders[i].margin = orders[i].total - orders[i].craftcloud_cost
      /\ orders[i].total = orders[i].base_price + orders[i].addons_price + orders[i].shipping

\* --------------------------------------------------------------------- C33

\* The step is a turn of the state machine.
MachineStep == own'.actor = "machine"

\* The step is one of the pipeline or a status update of the operator.
ForeignStep == own'.actor \in {"pipeline", "operator"}

\* C33: a turn of the state machine changes no Order but the one the
\* customer's pending_order_id names when the turn starts, and never one it
\* has set to confirmed or cancelled; an Order it creates is the pending
\* Order when the turn ends; no turn changes, or sets at creation, the
\* model-file reference or the vendor quote reference of an Order; and no
\* step of the pipeline and no status update of the operator changes the
\* conversation state or the Message log.
C33_Ownership ==
  /\ [][MachineStep =>
          /\ Len(orders') >= Len(orders)
          /\ \A i \in 1..Len(orders) :
               /\ orders'[i].stl_path = orders[i].stl_path
               /\ orders'[i].craftcloud_quote_id = orders[i].craftcloud_quote_id
               /\ orders'[i] # orders[i] =>
                    /\ orders[i].order_id = turn'.state.pending_order_id
                    /\ orders[i].psid = turn'.psid
                    /\ orders[i].order_id \notin own.closed
          /\ \A i \in (Len(orders) + 1)..Len(orders') :
               /\ orders'[i].stl_path = << >>
               /\ orders'[i].craftcloud_quote_id = << >>
               /\ orders'[i].order_id = conversation_state'[turn'.psid].pending_order_id]_vars
  /\ [][ForeignStep =>
          /\ conversation_state' = conversation_state
          /\ messages' = messages]_vars

\* C33 witness: the state machine has confirmed the first Order, the
\* pipeline has generated its model and the operator has shipped it, and
\* the state machine has just stored the details of the second Order,
\* which was the pending one.
C33_Witness ==
  /\ own.actor = "machine"
  /\ Len(orders) = 2
  /\ orders[1].order_id \in own.closed
  /\ orders[1].status = "shipped"
  /\ orders[1].stl_path # << >>
  /\ orders[2].material # << >>
  /\ turn.state = [stage |-> "PHOTO_RECEIVED", pending_order_id |-> orders[2].order_id]

====
